---- MODULE Spec2Model ----
(***************************************************************************)
(* A model of the dancelist event aggregator: the branch-creation retry    *)
(* loop of the GitHub submission workflow (github.rs), the month grouping   *)
(* of the index page (controllers/index.rs), the shared corpus behind the   *)
(* request extractor (extractors.rs) and the importers' conversion of       *)
(* upstream events (importers/balfolknl, importers/cdss,                    *)
(* importers/plugevents) and the Dresden import with its reconciliation     *)
(* against the previous corpus (importers/icalendar/dresden.rs).            *)
(* Pure functions (to_safe_filename) are applied to inputs drawn from       *)
(* bounded sets.                                                            *)
(*                                                                          *)
(* Each component has its own variables, initial condition and next-state   *)
(* relation, and a specification of its own (SpecBranch, SpecMonth, ...)    *)
(* in which the other components stay idle.                                 *)
(***************************************************************************)
EXTENDS Integers, Sequences, FiniteSets, TLC

VARIABLES
    \* create_branch (github.rs)
    cb_pc,          \* "idle" | "loop" | "done"
    cb_base,        \* pr_branch_base
    cb_suffix,      \* the loop variable `suffix`
    cb_last_error,  \* the accumulator `last_error`
    cb_calls,       \* the create_ref calls made so far: <<[name, outcome]>>
    cb_result,      \* what create_branch returned
    \* sort_and_group_by_month (controllers/index.rs)
    m_pc,           \* "idle" | "sort" | "group" | "done"
    m_input,        \* the argument `events`, as passed in
    m_events,       \* `events` after sort_by_key; the for loop runs over it
    m_i,            \* the position of the for loop in m_events
    m_month,        \* the local `month`
    m_months,       \* the local `months`; the return value once m_pc = "done"
    \* the shared corpus, Arc<Mutex<Events>> (extractors.rs)
    corpus,         \* the Events inside the mutex
    mutex,          \* "free", or who holds the mutex: a reader or "writer"
    r_pc,           \* per request handler: "idle" | "lock" | "clone" | "handling"
    r_k,            \* per request handler: the next element events.clone() copies
    r_snap,         \* per request handler: the Events value it builds, then owns
    w_pc,           \* the writer: "idle" | "store" | "unlock"
    w_count,        \* how many times the corpus has been replaced
    \* get_time (importers/balfolknl/mod.rs)
    gt_pc,          \* "idle" | "call" | "done"
    gt_start,       \* event.get_start()
    gt_end,         \* event.get_end()
    gt_result,      \* what get_time returned
    \* import_events (importers/balfolknl/mod.rs, importers/plugevents/mod.rs)
    imp_pc,         \* "idle" | "run" | "done"
    imp_source,     \* which importer runs: "balfolknl" | "plugevents"
    imp_feed,       \* the upstream events of the fetched feed, in order
    imp_i,          \* the position of the filter_map iterator in the feed
    imp_out,        \* the events collected so far
    imp_result,     \* what import_events returned
    \* convert (importers/cdss/mod.rs)
    cd_pc,          \* "idle" | "call" | "done"
    cd_input,       \* the arguments: the event's CATEGORIES and its EventParts
    cd_result,      \* what convert returned, or that it panicked
    \* import_events (importers/icalendar/dresden.rs)
    dr_pc,          \* "idle" | "dresden" | "weekly" | "done"
    dr_old,         \* the argument old_events
    dr_new,         \* the local new_events
    dr_fetched,     \* the import_new_events calls so far: <<[source, outcome]>>
    dr_combined,    \* the calls of combine_events so far: <<[old, new]>>
    dr_result,      \* what import_events returned
    dr_sticky,      \* the keys cancelled in an earlier corpus and fetched ever since
    \* to_safe_filename (github.rs)
    fn_pc,          \* "idle" | "call" | "done"
    fn_input,       \* the argument s, as the sequence of its characters
    fn_result       \* the String returned

branchVars == <<cb_pc, cb_base, cb_suffix, cb_last_error, cb_calls, cb_result>>

monthVars == <<m_pc, m_input, m_events, m_i, m_month, m_months>>

corpusVars == <<corpus, mutex, r_pc, r_k, r_snap, w_pc, w_count>>

timeVars == <<gt_pc, gt_start, gt_end, gt_result>>

importVars ==
    <<imp_pc, imp_source, imp_feed, imp_i, imp_out, imp_result, cd_pc, cd_input, cd_result>>

dresdenVars == <<dr_pc, dr_old, dr_new, dr_fetched, dr_combined, dr_result, dr_sticky>>

filenameVars == <<fn_pc, fn_input, fn_result>>

vars ==
    <<branchVars, monthVars, corpusVars, timeVars, importVars, dresdenVars, filenameVars>>

\* What a step of one component leaves alone: the other components.
BranchFrame == UNCHANGED <<monthVars, corpusVars, timeVars, importVars, dresdenVars, filenameVars>>

MonthFrame == UNCHANGED <<branchVars, corpusVars, timeVars, importVars, dresdenVars, filenameVars>>

CorpusFrame == UNCHANGED <<branchVars, monthVars, timeVars, importVars, dresdenVars, filenameVars>>

TimeFrame == UNCHANGED <<branchVars, monthVars, corpusVars, importVars, dresdenVars, filenameVars>>

ImportFrame == UNCHANGED <<branchVars, monthVars, corpusVars, timeVars, dresdenVars, filenameVars>>

DresdenFrame == UNCHANGED <<branchVars, monthVars, corpusVars, timeVars, importVars, filenameVars>>

FilenameFrame ==
    UNCHANGED <<branchVars, monthVars, corpusVars, timeVars, importVars, dresdenVars>>

(***************************************************************************)
(* github.rs: create_branch                                                *)
(***************************************************************************)

\* const MAX_SUFFIX: u32 = 9;
MAX_SUFFIX == 9

\* StatusCode::UNPROCESSABLE_ENTITY
UNPROCESSABLE_ENTITY == 422

\* The branch bases create_branch is run on: "add-<country>-<city>-<name>".
Bases == {"add-uk-london-ceilidh", "add-usa-boston-contra", "add-nl-utrecht-bal"}

\* HTTP statuses of a failing create_ref other than 422; 0 stands for an
\* octocrab::Error that is not an Http error (it has no status).
OtherStatuses == {0, 404, 500}

\* let mut last_error = eyre!("Failed to create branch for event PR.");
InitialError == [kind |-> "eyre", status |-> 0, name |-> "Failed to create branch for event PR."]

\* The error create_ref returns for the branch `name` with HTTP status `st`.
HttpError(st, name) == [kind |-> "octocrab", status |-> st, name |-> name]

NoResult == [kind |-> "none"]

\* let branch_name = if suffix == 0 { base.clone() } else { format!("{}{}", base, suffix) };
BranchName(base, suffix) ==
    IF suffix = 0 THEN base ELSE base \o ToString(suffix)

BranchIdle ==
    /\ cb_pc = "idle"
    /\ cb_base = ""
    /\ cb_suffix = 0
    /\ cb_last_error = InitialError
    /\ cb_calls = <<>>
    /\ cb_result = NoResult

\* create_branch is entered: the base is formatted, last_error initialised and
\* the loop starts at suffix 0.
BranchInit ==
    /\ cb_pc = "loop"
    /\ cb_base \in Bases
    /\ cb_suffix = 0
    /\ cb_last_error = InitialError
    /\ cb_calls = <<>>
    /\ cb_result = NoResult

\* create_ref succeeds: return Ok(branch_name).
CreateRefOk ==
    /\ cb_pc = "loop"
    /\ LET name == BranchName(cb_base, cb_suffix) IN
        /\ cb_calls' = Append(cb_calls, [name |-> name, outcome |-> [kind |-> "ok"]])
        /\ cb_result' = [kind |-> "Ok", name |-> name]
    /\ cb_pc' = "done"
    /\ UNCHANGED <<cb_base, cb_suffix, cb_last_error>>
    /\ BranchFrame

\* create_ref fails with HTTP 422: remember the error and let the loop try the
\* next suffix; after the last suffix, warn and return Err(last_error).
CreateRef422_KeepsFirstError ==
    /\ cb_pc = "loop"
    /\ LET name == BranchName(cb_base, cb_suffix)
           e == HttpError(UNPROCESSABLE_ENTITY, name)
           last == IF cb_suffix = 0 THEN e ELSE cb_last_error
       IN
        /\ cb_calls' = Append(cb_calls, [name |-> name, outcome |-> e])
        /\ cb_last_error' = last
        /\ IF cb_suffix < MAX_SUFFIX
           THEN /\ cb_suffix' = cb_suffix + 1
                /\ UNCHANGED <<cb_pc, cb_result>>
           ELSE /\ cb_pc' = "done"
                /\ cb_result' = [kind |-> "Err", error |-> last]
                /\ UNCHANGED cb_suffix
    /\ UNCHANGED cb_base
    /\ BranchFrame

CreateRef422 ==
    /\ cb_pc = "loop"
    /\ LET name == BranchName(cb_base, cb_suffix)
           e == HttpError(UNPROCESSABLE_ENTITY, name)
       IN
        /\ cb_calls' = Append(cb_calls, [name |-> name, outcome |-> e])
        /\ cb_last_error' = e
        /\ IF cb_suffix < MAX_SUFFIX
           THEN /\ cb_suffix' = cb_suffix + 1
                /\ UNCHANGED <<cb_pc, cb_result>>
           ELSE /\ cb_pc' = "done"
                /\ cb_result' = [kind |-> "Err", error |-> e]
                /\ UNCHANGED cb_suffix
    /\ UNCHANGED cb_base
    /\ BranchFrame

\* create_ref failing with another error handled like a collision: the loop
\* goes on to the next suffix.
CreateRefOther_TriesNextSuffix ==
    /\ cb_pc = "loop"
    /\ \E st \in OtherStatuses :
        LET name == BranchName(cb_base, cb_suffix)
            e == HttpError(st, name)
        IN
        /\ cb_calls' = Append(cb_calls, [name |-> name, outcome |-> e])
        /\ cb_last_error' = e
        /\ IF cb_suffix < MAX_SUFFIX
           THEN /\ cb_suffix' = cb_suffix + 1
                /\ UNCHANGED <<cb_pc, cb_result>>
           ELSE /\ cb_pc' = "done"
                /\ cb_result' = [kind |-> "Err", error |-> e]
                /\ UNCHANGED cb_suffix
    /\ UNCHANGED cb_base
    /\ BranchFrame

\* create_ref fails with any other error: return it immediately.
CreateRefOther ==
    /\ cb_pc = "loop"
    /\ \E st \in OtherStatuses :
        LET name == BranchName(cb_base, cb_suffix)
            e == HttpError(st, name)
        IN
        /\ cb_calls' = Append(cb_calls, [name |-> name, outcome |-> e])
        /\ cb_result' = [kind |-> "Err", error |-> e]
    /\ cb_pc' = "done"
    /\ UNCHANGED <<cb_base, cb_suffix, cb_last_error>>
    /\ BranchFrame

BranchNext ==
    \/ CreateRefOk
    \/ CreateRef422
    \/ CreateRefOther

\* Every create_ref call so far failed with an HTTP 422 name collision.
AllCollide ==
    \A i \in 1..Len(cb_calls) :
        /\ cb_calls[i].outcome.kind = "octocrab"
        /\ cb_calls[i].outcome.status = UNPROCESSABLE_ENTITY

\* C1: when every create_ref attempt collides (HTTP 422), create_branch makes
\* exactly one attempt per candidate name, the base and then the suffixes 1 to
\* MAX_SUFFIX in ascending order (MAX_SUFFIX + 1 attempts, none repeated), and
\* then returns an error carrying the collision error of the last attempt; it
\* never returns a branch name and never makes a further attempt.
C1_CollisionsExhaust ==
    AllCollide =>
        /\ Len(cb_calls) <= MAX_SUFFIX + 1
        /\ cb_calls # <<>> => cb_calls[1].name = cb_base
        /\ \A i \in 2..Len(cb_calls) : cb_calls[i].name = cb_base \o ToString(i - 1)
        /\ \A i, j \in 1..Len(cb_calls) : i # j => cb_calls[i].name # cb_calls[j].name
        /\ cb_result.kind # "Ok"
        /\ (cb_pc = "done") <=> (Len(cb_calls) = MAX_SUFFIX + 1)
        /\ cb_pc = "done" =>
            /\ cb_result.kind = "Err"
            /\ cb_result.error = cb_calls[Len(cb_calls)].outcome
            /\ cb_result.error.status = UNPROCESSABLE_ENTITY
            /\ ~ ENABLED BranchNext

\* C1's case: all MAX_SUFFIX + 1 attempts collided and create_branch returned.
C1_Witness ==
    /\ cb_pc = "done"
    /\ AllCollide
    /\ Len(cb_calls) = MAX_SUFFIX + 1

\* The create_ref call number i failed with an HTTP 422 name collision.
Collided(i) ==
    /\ cb_calls[i].outcome.kind = "octocrab"
    /\ cb_calls[i].outcome.status = UNPROCESSABLE_ENTITY

\* C19: create_branch stops at the first create_ref attempt that succeeds or
\* fails with something other than HTTP 422. The attempts go through the
\* candidates base, base1, base2, ... in order and every attempt before the
\* last one collided; when the last attempt succeeded, create_branch has
\* returned the name that attempt used; when it failed with another error,
\* create_branch has returned exactly that error; in both cases no further
\* create_ref attempt is made. create_branch returns a name in no other case.
C19_StopsAtFirstDecisiveAttempt ==
    LET n == Len(cb_calls) IN
    /\ \A i \in 1..n : cb_calls[i].name = BranchName(cb_base, i - 1)
    /\ \A i \in 1..(n - 1) : Collided(i)
    /\ (n > 0 /\ cb_calls[n].outcome.kind = "ok") =>
        /\ cb_pc = "done"
        /\ cb_result = [kind |-> "Ok", name |-> cb_calls[n].name]
        /\ ~ ENABLED BranchNext
    /\ (n > 0 /\ cb_calls[n].outcome.kind # "ok" /\ ~ Collided(n)) =>
        /\ cb_pc = "done"
        /\ cb_result = [kind |-> "Err", error |-> cb_calls[n].outcome]
        /\ ~ ENABLED BranchNext
    /\ cb_result.kind = "Ok" => (n > 0 /\ cb_calls[n].outcome.kind = "ok")

\* C19's case: after collisions on the base and on the first suffixes,
\* an attempt succeeded and create_branch returned its name.
C19_Witness ==
    /\ cb_pc = "done"
    /\ Len(cb_calls) > 3
    /\ cb_calls[Len(cb_calls)].outcome.kind = "ok"
    /\ cb_result = [kind |-> "Ok", name |-> cb_base \o "3"]

(***************************************************************************)
(* Calendar dates (chrono::NaiveDate), as records [y, m, d].               *)
(***************************************************************************)

Date(y, m, d) == [y |-> y, m |-> m, d |-> d]

\* NaiveDate's Ord: chronological order.
DateLess(a, b) ==
    \/ a.y < b.y
    \/ a.y = b.y /\ a.m < b.m
    \/ a.y = b.y /\ a.m = b.m /\ a.d < b.d

DateLeq(a, b) == a = b \/ DateLess(a, b)

(***************************************************************************)
(* controllers/index.rs: sort_and_group_by_month                           *)
(***************************************************************************)

\* The longest list of events sort_and_group_by_month is run on.
MaxEvents == 3

\* chrono::naive::MIN_DATE, January 1 of the year -262144.
MIN_DATE == Date(-262144, 1, 1)

\* The start dates the events are drawn from: one in MIN_DATE's month, the
\* last day of a year, two days of one month, the month after, and the same
\* month one year later.
MonthDates ==
    { Date(-262144, 1, 20), Date(2023, 12, 31), Date(2024, 1, 2),
      Date(2024, 1, 15), Date(2024, 2, 3), Date(2025, 1, 2) }

\* An Event, as far as the index page reads it; id tells apart events that
\* have the same start date (it stands for the rest of the event's fields).
MkEvent(id, date) == [id |-> id, start_date |-> date]

\* Every input: the event at position i of the argument has id i.
MonthInputs ==
    UNION { { [i \in 1..n |-> MkEvent(i, ds[i])] : ds \in [1..n -> MonthDates] }
            : n \in 0..MaxEvents }

\* Month { start, events }
MkMonth(start, events) == [start |-> start, events |-> events]

RECURSIVE InsertBeforeEqual(_, _)
InsertBeforeEqual(sorted, e) ==
    IF sorted = <<>> THEN <<e>>
    ELSE IF DateLess(Head(sorted).start_date, e.start_date)
         THEN <<Head(sorted)>> \o InsertBeforeEqual(Tail(sorted), e)
         ELSE <<e>> \o sorted

\* One insertion of a stable sort: e goes after every element whose key is
\* not greater than its own.
RECURSIVE InsertStable(_, _)
InsertStable(sorted, e) ==
    IF sorted = <<>> THEN <<e>>
    ELSE IF DateLeq(Head(sorted).start_date, e.start_date)
         THEN <<Head(sorted)>> \o InsertStable(Tail(sorted), e)
         ELSE <<e>> \o sorted

RECURSIVE SortUnstable(_)
SortUnstable(events) ==
    IF events = <<>> THEN <<>>
    ELSE InsertBeforeEqual(SortUnstable(SubSeq(events, 1, Len(events) - 1)),
                           events[Len(events)])

\* events.sort_by_key(|event| event.start_date): a stable sort.
RECURSIVE SortByKey(_)
SortByKey(events) ==
    IF events = <<>> THEN <<>>
    ELSE InsertStable(SortByKey(SubSeq(events, 1, Len(events) - 1)),
                      events[Len(events)])

SameMonthIgnoringYear(date, month) == date.m = month.start.m

\* event.start_date.year() == month.start.year()
\*     && event.start_date.month() == month.start.month()
SameMonth(date, month) ==
    /\ date.y = month.start.y
    /\ date.m = month.start.m

MonthIdle ==
    /\ m_pc = "idle"
    /\ m_input = <<>>
    /\ m_events = <<>>
    /\ m_i = 1
    /\ m_month = MkMonth(MIN_DATE, <<>>)
    /\ m_months = <<>>

\* sort_and_group_by_month is called with some list of events.
MonthInit ==
    /\ m_pc = "sort"
    /\ m_input \in MonthInputs
    /\ m_events = m_input
    /\ m_i = 1
    /\ m_month = MkMonth(MIN_DATE, <<>>)
    /\ m_months = <<>>

\* events.sort_by_key(..); let mut months = vec![]; let mut month = Month {
\* start: naive::MIN_DATE, events: vec![] };
SortEvents ==
    /\ m_pc = "sort"
    /\ m_events' = SortByKey(m_events)
    /\ m_months' = <<>>
    /\ m_month' = MkMonth(MIN_DATE, <<>>)
    /\ m_i' = 1
    /\ m_pc' = "group"
    /\ UNCHANGED m_input
    /\ MonthFrame

\* One iteration of `for event in events`.
GroupStep ==
    /\ m_pc = "group"
    /\ m_i <= Len(m_events)
    /\ LET event == m_events[m_i] IN
        IF SameMonth(event.start_date, m_month)
        THEN /\ m_month' = MkMonth(m_month.start, Append(m_month.events, event))
             /\ UNCHANGED m_months
        ELSE /\ m_months' = IF m_month.events # <<>>
                            THEN Append(m_months, m_month)
                            ELSE m_months
             /\ m_month' = MkMonth(Date(event.start_date.y, event.start_date.m, 1),
                                   <<event>>)
    /\ m_i' = m_i + 1
    /\ UNCHANGED <<m_pc, m_input, m_events>>
    /\ MonthFrame

\* After the loop: if !month.events.is_empty() { months.push(month); } months
GroupFinish ==
    /\ m_pc = "group"
    /\ m_i > Len(m_events)
    /\ m_months' = IF m_month.events # <<>>
                   THEN Append(m_months, m_month)
                   ELSE m_months
    /\ m_pc' = "done"
    /\ UNCHANGED <<m_input, m_events, m_i, m_month>>
    /\ MonthFrame

MonthNext ==
    \/ SortEvents
    \/ GroupStep
    \/ GroupFinish

\* The events of the groups, concatenated in group order.
RECURSIVE ConcatGroups(_)
ConcatGroups(months) ==
    IF months = <<>> THEN <<>>
    ELSE Head(months).events \o ConcatGroups(Tail(months))

\* C2: the concatenation of the returned groups' events, in group order, is
\* the input stably sorted by ascending start date: as long as the input,
\* every element an unaltered input event, and of any two elements the earlier
\* has the earlier start date or, the dates being equal, the earlier position
\* in the input (so every input event occurs exactly once).
C2_GroupsAreStableSort ==
    m_pc = "done" =>
        LET out == ConcatGroups(m_months) IN
        /\ Len(out) = Len(m_input)
        /\ \A i \in 1..Len(out) :
            /\ out[i].id \in 1..Len(m_input)
            /\ out[i] = m_input[out[i].id]
        /\ \A i, j \in 1..Len(out) :
            i < j =>
                \/ DateLess(out[i].start_date, out[j].start_date)
                \/ /\ out[i].start_date = out[j].start_date
                   /\ out[i].id < out[j].id

\* C2's case: the call returned for an input that is out of order and holds
\* two events with the same start date.
C2_Witness ==
    /\ m_pc = "done"
    /\ \E i, j \in 1..Len(m_input) :
        i < j /\ DateLess(m_input[j].start_date, m_input[i].start_date)
    /\ \E i, j \in 1..Len(m_input) :
        i < j /\ m_input[i].start_date = m_input[j].start_date

\* The start dates of the spec's example, in the order given there.
ExampleDates == <<Date(2024, 1, 2), Date(2024, 1, 15), Date(2024, 2, 3)>>

IsExampleInput ==
    /\ Len(m_input) = 3
    /\ \A i \in 1..3 : m_input[i].start_date = ExampleDates[i]

\* C3: in the returned groups no group is empty, each key is the first day of
\* a month and every event of the group starts in that year and month, and
\* the keys are strictly ascending (each year and month occurs in at most one
\* group); start dates 2024-01-02, 2024-01-15, 2024-02-03 give exactly January
\* 2024 with 2 events, then February 2024 with 1 event.
C3_GroupsAreMonths ==
    m_pc = "done" =>
        /\ \A g \in 1..Len(m_months) :
            /\ m_months[g].events # <<>>
            /\ m_months[g].start.d = 1
            /\ \A k \in 1..Len(m_months[g].events) :
                /\ m_months[g].events[k].start_date.y = m_months[g].start.y
                /\ m_months[g].events[k].start_date.m = m_months[g].start.m
        /\ \A g, h \in 1..Len(m_months) :
            g < h => DateLess(m_months[g].start, m_months[h].start)
        /\ IsExampleInput =>
            /\ Len(m_months) = 2
            /\ m_months[1].start = Date(2024, 1, 1)
            /\ Len(m_months[1].events) = 2
            /\ m_months[2].start = Date(2024, 2, 1)
            /\ Len(m_months[2].events) = 1

\* C3's case: the call returned for the example's input.
C3_Witness ==
    /\ m_pc = "done"
    /\ IsExampleInput
    /\ Len(m_months) = 2

(***************************************************************************)
(* extractors.rs: the Events extractor, and the writer of the corpus        *)
(***************************************************************************)

\* The request handlers that run concurrently.
Readers == {"r1", "r2"}

\* How many events a corpus holds.
CorpusLen == 2

\* How many reconciliation cycles replace the corpus.
MaxCycles == 2

\* The corpus of cycle v (0: the one loaded at start): every event carries the
\* cycle that produced it, so that a mixture of two corpora shows.
Content(v) == [i \in 1..CorpusLen |-> [cycle |-> v, index |-> i]]

CorpusIdle ==
    /\ corpus = Content(0)
    /\ mutex = "free"
    /\ r_pc = [r \in Readers |-> "idle"]
    /\ r_k = [r \in Readers |-> 1]
    /\ r_snap = [r \in Readers |-> <<>>]
    /\ w_pc = "idle"
    /\ w_count = 0

\* The server is up: the corpus is loaded, no request is being handled.
CorpusInit == CorpusIdle

\* A request arrives; State::from_request_parts hands the extractor its clone
\* of the Arc<Mutex<Events>>.
ReaderStart(r) ==
    /\ r_pc[r] = "idle"
    /\ r_pc' = [r_pc EXCEPT ![r] = "lock"]
    /\ r_k' = [r_k EXCEPT ![r] = 1]
    /\ r_snap' = [r_snap EXCEPT ![r] = <<>>]
    /\ UNCHANGED <<corpus, mutex, w_pc, w_count>>
    /\ CorpusFrame

ReaderLock_NoWait(r) ==
    /\ r_pc[r] = "lock"
    /\ r_pc' = [r_pc EXCEPT ![r] = "clone"]
    /\ UNCHANGED <<corpus, mutex, r_k, r_snap, w_pc, w_count>>
    /\ CorpusFrame

\* let events = events.lock().unwrap(): waits until the mutex is free.
ReaderLock(r) ==
    /\ r_pc[r] = "lock"
    /\ mutex = "free"
    /\ mutex' = r
    /\ r_pc' = [r_pc EXCEPT ![r] = "clone"]
    /\ UNCHANGED <<corpus, r_k, r_snap, w_pc, w_count>>
    /\ CorpusFrame

\* events.clone() copies the Vec<Event> one event after the other.
ReaderCloneStep(r) ==
    /\ r_pc[r] = "clone"
    /\ r_k[r] <= Len(corpus)
    /\ r_snap' = [r_snap EXCEPT ![r] = Append(@, corpus[r_k[r]])]
    /\ r_k' = [r_k EXCEPT ![r] = @ + 1]
    /\ UNCHANGED <<corpus, mutex, r_pc, w_pc, w_count>>
    /\ CorpusFrame

ReaderReturn_KeepsGuard(r) ==
    /\ r_pc[r] = "clone"
    /\ r_k[r] > Len(corpus)
    /\ r_pc' = [r_pc EXCEPT ![r] = "handling"]
    /\ UNCHANGED <<corpus, mutex, r_k, r_snap, w_pc, w_count>>
    /\ CorpusFrame

\* Ok(events.clone()) returns: the guard goes out of scope, which unlocks the
\* mutex, and the handler runs on the Events value it was given.
ReaderReturn(r) ==
    /\ r_pc[r] = "clone"
    /\ r_k[r] > Len(corpus)
    /\ mutex' = IF mutex = r THEN "free" ELSE mutex
    /\ r_pc' = [r_pc EXCEPT ![r] = "handling"]
    /\ UNCHANGED <<corpus, r_k, r_snap, w_pc, w_count>>
    /\ CorpusFrame

\* The handler (index: matching, sort_and_group_by_month, render) finishes.
ReaderFinish(r) ==
    /\ r_pc[r] = "handling"
    /\ r_pc' = [r_pc EXCEPT ![r] = "idle"]
    /\ UNCHANGED <<corpus, mutex, r_k, r_snap, w_pc, w_count>>
    /\ CorpusFrame

\* The writer has the corpus of the next cycle and locks the mutex.
WriterLock ==
    /\ w_pc = "idle"
    /\ w_count < MaxCycles
    /\ mutex = "free"
    /\ mutex' = "writer"
    /\ w_pc' = "store"
    /\ UNCHANGED <<corpus, r_pc, r_k, r_snap, w_count>>
    /\ CorpusFrame

\* The writer replaces the Events inside the mutex wholesale.
WriterStore ==
    /\ w_pc = "store"
    /\ corpus' = Content(w_count + 1)
    /\ w_count' = w_count + 1
    /\ w_pc' = "unlock"
    /\ UNCHANGED <<mutex, r_pc, r_k, r_snap>>
    /\ CorpusFrame

\* The writer's guard is dropped.
WriterUnlock ==
    /\ w_pc = "unlock"
    /\ mutex' = IF mutex = "writer" THEN "free" ELSE mutex
    /\ w_pc' = "idle"
    /\ UNCHANGED <<corpus, r_pc, r_k, r_snap, w_count>>
    /\ CorpusFrame

CorpusNext ==
    \/ \E r \in Readers : ReaderStart(r)
    \/ \E r \in Readers : ReaderLock(r)
    \/ \E r \in Readers : ReaderCloneStep(r)
    \/ \E r \in Readers : ReaderReturn(r)
    \/ \E r \in Readers : ReaderFinish(r)
    \/ WriterLock
    \/ WriterStore
    \/ WriterUnlock

\* The Events value a handler holds is one whole corpus: that of some cycle.
SnapshotIsOneCorpus ==
    \A r \in Readers :
        r_pc[r] = "handling" => \E v \in 0..w_count : r_snap[r] = Content(v)

\* In a step in which the extractor returns, the value it returns is the
\* corpus as it stands at that instant; in any other step of a request being
\* handled, the handler's value stays what it was.
SnapshotStep ==
    \A r \in Readers :
        /\ (r_pc[r] = "clone" /\ r_pc'[r] = "handling") => r_snap'[r] = corpus
        /\ (r_pc[r] = "handling" /\ r_pc'[r] = "handling") => r_snap'[r] = r_snap[r]

\* C4: under every interleaving of the request handlers and the writer, the
\* Events value the extractor returns equals the complete corpus as it stands
\* at the instant of the return (so it is one whole corpus, never a mixture of
\* two), and it does not change while the request is handled, also when the
\* shared corpus is replaced meanwhile.
C4_ConsistentSnapshot == []SnapshotIsOneCorpus /\ [][SnapshotStep]_vars

\* C4's case: a handler runs on its snapshot while the writer has already
\* replaced the shared corpus, and another handler is in the middle of its
\* clone.
C4_Witness ==
    \E r, q \in Readers :
        /\ r_pc[r] = "handling"
        /\ r_snap[r] # corpus
        /\ r_pc[q] = "clone"
        /\ r_k[q] = 2
        /\ w_count > 0

IsLeapYear(y) == (y % 4 = 0 /\ y % 100 # 0) \/ y % 400 = 0

DaysInMonth(y, m) ==
    IF m = 2 THEN (IF IsLeapYear(y) THEN 29 ELSE 28)
    ELSE IF m \in {4, 6, 9, 11} THEN 30 ELSE 31

PredSameDay(date) == date

\* NaiveDate::pred_opt, for a date that has a previous day (every date but
\* NaiveDate::MIN, which no DTEND of a calendar file parses to).
NaivePred(date) ==
    IF date.d > 1 THEN Date(date.y, date.m, date.d - 1)
    ELSE IF date.m > 1
         THEN Date(date.y, date.m - 1, DaysInMonth(date.y, date.m - 1))
         ELSE Date(date.y - 1, 12, 31)

RECURSIVE DaysBeforeMonth(_, _)
DaysBeforeMonth(y, m) ==
    IF m = 1 THEN 0 ELSE DaysBeforeMonth(y, m - 1) + DaysInMonth(y, m - 1)

\* The number of the day, counted from 0001-01-01 (years from 1 on).
DayNumber(date) ==
    LET p == date.y - 1 IN
    365 * p + (p \div 4) - (p \div 100) + (p \div 400)
        + DaysBeforeMonth(date.y, date.m) + date.d

\* A NaiveDateTime, to the second.
LocalTimeS(date, h, mi, s) == [date |-> date, h |-> h, mi |-> mi, s |-> s]

\* A NaiveDateTime on a full minute.
LocalTime(date, h, mi) == LocalTimeS(date, h, mi, 0)

SecondOfDay(lt) == 3600 * lt.h + 60 * lt.mi + lt.s

LocalLess(a, b) ==
    \/ DateLess(a.date, b.date)
    \/ a.date = b.date /\ SecondOfDay(a) < SecondOfDay(b)

\* Europe/Amsterdam in chrono_tz: CET (+01:00), and CEST (+02:00) from the
\* last Sunday of March, 02:00 local, to the last Sunday of October, 03:00
\* local; the two Sundays of the years the model uses.
CET == 3600

CEST == 7200

DstStart(y) == CASE y = 2022 -> Date(y, 3, 27) [] y = 2024 -> Date(y, 3, 31)

DstEnd(y) == CASE y = 2022 -> Date(y, 10, 30) [] y = 2024 -> Date(y, 10, 27)

\* Amsterdam.from_local_datetime(&lt): the offsets the local time can have.
\* None in the hour the clocks skip, two in the hour they repeat.
AmsterdamOffsets(lt) ==
    LET gapFrom == LocalTime(DstStart(lt.date.y), 2, 0)
        gapTo == LocalTime(DstStart(lt.date.y), 3, 0)
        foldFrom == LocalTime(DstEnd(lt.date.y), 2, 0)
        foldTo == LocalTime(DstEnd(lt.date.y), 3, 0)
    IN
    IF LocalLess(lt, gapFrom) THEN {CET}
    ELSE IF LocalLess(lt, gapTo) THEN {}
    ELSE IF LocalLess(lt, foldFrom) THEN {CEST}
    ELSE IF LocalLess(lt, foldTo) THEN {CEST, CET}
    ELSE {CET}

\* LocalResult::single(): Some exactly when there is one.
IsSingle(offsets) == Cardinality(offsets) = 1

TheSingle(offsets) == CHOOSE o \in offsets : TRUE

\* to_fixed_offset: the same instant and local time, as a DateTime<FixedOffset>
\* that keeps the offset and drops the zone.
ToFixedOffset(zoned) == [local |-> zoned.local, offset |-> zoned.offset]

\* The instant of a DateTime<FixedOffset>: its seconds since 1970-01-01
\* 00:00:00 UTC, which is what the comparison of two DateTime values compares.
InstantSeconds(dt) ==
    86400 * (DayNumber(dt.local.date) - DayNumber(Date(1970, 1, 1)))
        + SecondOfDay(dt.local) - dt.offset

(***************************************************************************)
(* importers/balfolknl/mod.rs: get_time                                    *)
(***************************************************************************)

\* icalendar::DatePerhapsTime, and None for a property that is missing.
Missing == [kind |-> "None"]

DateOnlyValue(date) == [kind |-> "Date", date |-> date]

\* CalendarDateTime::Floating(date_time): no zone at all.
Floating(lt) == [kind |-> "DateTime", cal |-> "Floating", date_time |-> lt]

\* CalendarDateTime::Utc(date_time)
UtcValue(lt) == [kind |-> "DateTime", cal |-> "Utc", date_time |-> lt]

\* CalendarDateTime::WithTimezone { date_time, tzid }
WithTimezone(lt, tzid) ==
    [kind |-> "DateTime", cal |-> "WithTimezone", date_time |-> lt, tzid |-> tzid]

IsDate(v) == v.kind = "Date"

IsWithTimezone(v) == v.kind = "DateTime" /\ v.cal = "WithTimezone"

\* The dates of whole-day events: inside a month, the first of a month after
\* months of 30 and 31 days, the first of a year, and March 1 of a leap year
\* and of a common year.
UpstreamDates ==
    { Date(2022, 4, 1), Date(2022, 4, 2), Date(2022, 5, 1), Date(2022, 12, 1),
      Date(2023, 1, 1), Date(2024, 3, 1), Date(2023, 3, 1) }

\* The local times of timestamped events: summer and winter time, the hour
\* the clocks skip (2022-03-27 02:30), the hour they repeat (2022-10-30
\* 02:30), and the first minute after each.
UpstreamLocalTimes ==
    { LocalTime(Date(2022, 4, 1), 19, 0), LocalTime(Date(2022, 1, 15), 20, 0),
      LocalTime(Date(2022, 3, 27), 2, 30), LocalTime(Date(2022, 3, 27), 3, 0),
      LocalTime(Date(2022, 10, 30), 2, 30), LocalTime(Date(2022, 10, 30), 3, 0) }

Tzids == {"Europe/Amsterdam", "Europe/Berlin"}

\* What DTSTART or DTEND can be.
Endpoints ==
    {Missing}
    \cup { DateOnlyValue(d) : d \in UpstreamDates }
    \cup { Floating(LocalTime(Date(2022, 4, 1), 19, 0)),
           UtcValue(LocalTime(Date(2022, 4, 1), 19, 0)) }
    \cup { WithTimezone(lt, tz) : lt \in UpstreamLocalTimes, tz \in Tzids }

\* Result<EventTime, Report>
TimeOk(time) == [ok |-> TRUE, time |-> time]

TimeErr(msg) == [ok |-> FALSE, error |-> msg]

\* EventTime::DateOnly { start_date, end_date }
DateOnly(start_date, end_date) ==
    [kind |-> "DateOnly", start_date |-> start_date, end_date |-> end_date]

\* EventTime::DateTime { start, end }
DateTimeOf(start, end) == [kind |-> "DateTime", start |-> start, end |-> end]

\* Amsterdam.from_local_datetime(&lt) when it is single: the zoned time.
AmsterdamZoned(lt) ==
    [local |-> lt, offset |-> TheSingle(AmsterdamOffsets(lt)), tz |-> "Europe/Amsterdam"]

GetTime_IgnoresEndTzid(start, end) ==
    IF start = Missing THEN TimeErr("missing start time")
    ELSE IF end = Missing THEN TimeErr("missing end time")
    ELSE IF IsDate(start) /\ IsDate(end)
         THEN TimeOk(DateOnly(start.date, NaivePred(end.date)))
    ELSE IF IsWithTimezone(start) /\ IsWithTimezone(end)
         THEN IF start.tzid # "Europe/Amsterdam"
              THEN TimeErr("Unexpected start timezone")
              ELSE IF ~ IsSingle(AmsterdamOffsets(start.date_time))
              THEN TimeErr("Ambiguous datetime")
              ELSE IF ~ IsSingle(AmsterdamOffsets(end.date_time))
              THEN TimeErr("Ambiguous datetime")
              ELSE TimeOk(DateTimeOf(ToFixedOffset(AmsterdamZoned(start.date_time)),
                                     ToFixedOffset(AmsterdamZoned(end.date_time))))
    ELSE TimeErr("Mismatched start and end times")

\* fn get_time(event: &Event) -> Result<EventTime, Report>, on the event's
\* DTSTART and DTEND.
GetTime(start, end) ==
    IF start = Missing THEN TimeErr("missing start time")
    ELSE IF end = Missing THEN TimeErr("missing end time")
    ELSE IF IsDate(start) /\ IsDate(end)
         THEN TimeOk(DateOnly(start.date, NaivePred(end.date)))
    ELSE IF IsWithTimezone(start) /\ IsWithTimezone(end)
         THEN IF start.tzid # "Europe/Amsterdam"
              THEN TimeErr("Unexpected start timezone")
              ELSE IF end.tzid # "Europe/Amsterdam"
              THEN TimeErr("Unexpected end timezone")
              ELSE IF ~ IsSingle(AmsterdamOffsets(start.date_time))
              THEN TimeErr("Ambiguous datetime")
              ELSE IF ~ IsSingle(AmsterdamOffsets(end.date_time))
              THEN TimeErr("Ambiguous datetime")
              ELSE TimeOk(DateTimeOf(ToFixedOffset(AmsterdamZoned(start.date_time)),
                                     ToFixedOffset(AmsterdamZoned(end.date_time))))
    ELSE TimeErr("Mismatched start and end times")

NoTimeResult == [ok |-> FALSE, error |-> "not called"]

TimeIdle ==
    /\ gt_pc = "idle"
    /\ gt_start = Missing
    /\ gt_end = Missing
    /\ gt_result = NoTimeResult

\* get_time is called on an event with some DTSTART and DTEND.
TimeInit ==
    /\ gt_pc = "call"
    /\ gt_start \in Endpoints
    /\ gt_end \in Endpoints
    /\ gt_result = NoTimeResult

GetTimeCall ==
    /\ gt_pc = "call"
    /\ gt_result' = GetTime(gt_start, gt_end)
    /\ gt_pc' = "done"
    /\ UNCHANGED <<gt_start, gt_end>>
    /\ TimeFrame

TimeNext == GetTimeCall

\* C8: for a whole-day event (DTSTART and DTEND both a date) get_time returns
\* DateOnly with the upstream start date as start_date and, as end_date, the
\* calendar date one day before the upstream end date.
C8_WholeDayEndMinusOne ==
    (gt_pc = "done" /\ IsDate(gt_start) /\ IsDate(gt_end)) =>
        /\ gt_result.ok
        /\ gt_result.time.kind = "DateOnly"
        /\ gt_result.time.start_date = gt_start.date
        /\ LET e == gt_result.time.end_date IN
            /\ e.m \in 1..12
            /\ e.d \in 1..DaysInMonth(e.y, e.m)
            /\ DayNumber(e) = DayNumber(gt_end.date) - 1

\* C8's case: a whole-day event whose DTEND is the first day of a year, so
\* that the day before is in another month and year.
C8_Witness ==
    /\ gt_pc = "done"
    /\ IsDate(gt_start)
    /\ gt_end = DateOnlyValue(Date(2023, 1, 1))
    /\ gt_result.ok
    /\ gt_result.time.end_date = Date(2022, 12, 31)

\* A timestamp of Europe/Amsterdam whose local time is one instant there: not
\* in the hour the clocks skip, nor in the hour they repeat.
UnambiguousAmsterdam(v) ==
    /\ IsWithTimezone(v)
    /\ v.tzid = "Europe/Amsterdam"
    /\ v.date_time \notin { LocalTime(Date(2022, 3, 27), 2, 30),
                            LocalTime(Date(2022, 10, 30), 2, 30) }

\* The UTC offset in force in Amsterdam at the local times of the model that
\* are one instant: +02:00 on 2022-04-01 and from 03:00 on 2022-03-27, +01:00
\* on 2022-01-15 and from 03:00 on 2022-10-30.
OffsetInForce(lt) ==
    IF lt \in { LocalTime(Date(2022, 4, 1), 19, 0), LocalTime(Date(2022, 3, 27), 3, 0) }
    THEN 7200
    ELSE 3600

\* C10: get_time returns a time only for the two well-formed shapes. It
\* returns an error when start or end is missing, when one endpoint is a date
\* and the other a timestamp, when a timestamp carries no timezone, when the
\* start or end timezone is not Europe/Amsterdam, and when the start or end
\* local time is not one instant in Europe/Amsterdam; for two unambiguous
\* Europe/Amsterdam timestamps it returns DateTime, each endpoint with its
\* local time and the UTC offset in force then (+02:00 for 2022-04-01 19:00).
C10_OnlyWellFormedTimes ==
    gt_pc = "done" =>
        /\ gt_result.ok <=>
            \/ IsDate(gt_start) /\ IsDate(gt_end)
            \/ UnambiguousAmsterdam(gt_start) /\ UnambiguousAmsterdam(gt_end)
        /\ (gt_start = Missing \/ gt_end = Missing) => ~ gt_result.ok
        /\ (IsDate(gt_start) /\ gt_end.kind = "DateTime") => ~ gt_result.ok
        /\ (gt_start.kind = "DateTime" /\ IsDate(gt_end)) => ~ gt_result.ok
        /\ \A v \in {gt_start, gt_end} :
            (v.kind = "DateTime" /\ v.cal # "WithTimezone") => ~ gt_result.ok
        /\ \A v \in {gt_start, gt_end} :
            (IsWithTimezone(v) /\ v.tzid # "Europe/Amsterdam") => ~ gt_result.ok
        /\ \A v \in {gt_start, gt_end} :
            (IsWithTimezone(v) /\ ~ UnambiguousAmsterdam(v)) => ~ gt_result.ok
        /\ (UnambiguousAmsterdam(gt_start) /\ UnambiguousAmsterdam(gt_end)) =>
            /\ gt_result.ok
            /\ gt_result.time.kind = "DateTime"
            /\ gt_result.time.start.local = gt_start.date_time
            /\ gt_result.time.start.offset = OffsetInForce(gt_start.date_time)
            /\ gt_result.time.end.local = gt_end.date_time
            /\ gt_result.time.end.offset = OffsetInForce(gt_end.date_time)
        /\ (/\ gt_start = WithTimezone(LocalTime(Date(2022, 4, 1), 19, 0), "Europe/Amsterdam")
            /\ gt_end = gt_start) =>
            /\ gt_result.ok
            /\ gt_result.time.start.offset = 7200
            /\ gt_result.time.end.offset = 7200

\* C10's case: get_time returned an error for a start in the hour the clocks
\* repeat, whose end is well formed.
C10_Witness ==
    /\ gt_pc = "done"
    /\ gt_start = WithTimezone(LocalTime(Date(2022, 10, 30), 2, 30), "Europe/Amsterdam")
    /\ UnambiguousAmsterdam(gt_end)
    /\ ~ gt_result.ok

(***************************************************************************)
(* importers/balfolknl/mod.rs: convert and import_events                   *)
(***************************************************************************)

\* Option::Some(x); Option::None is Missing.
Some(x) == [kind |-> "Some", val |-> x]

\* Result<Option<event::Event>, Report>: Ok(Some(event)), Ok(None), Err.
ConvertedTo(event) == [kind |-> "Some", event |-> event]

Skipped == [kind |-> "None"]

ConvertErr(msg) == [kind |-> "Err", error |-> msg]

\* The call panicked (an index out of bounds, an unwrap of None).
Panicked == [kind |-> "Panic"]

\* A text is the sequence of its words, a comma being a word of its own.
\* summary.rsplitn(2, ',').last(): what stands before the last comma, or the
\* whole summary when it has none.
RECURSIVE BeforeLastComma(_)
BeforeLastComma(words) ==
    IF \A i \in 1..Len(words) : words[i] # "," THEN words
    ELSE IF words[Len(words)] = "," THEN SubSeq(words, 1, Len(words) - 1)
    ELSE BeforeLastComma(SubSeq(words, 1, Len(words) - 1))

\* raw_name.replace(" - ", " <em dash> "): a word that is a hyphen becomes an
\* em dash (U+2014), written "EM DASH" here.
EmDash(words) == [i \in 1..Len(words) |-> IF words[i] = "-" THEN "EM DASH" ELSE words[i]]

\* name.starts_with(word)
StartsWith(words, word) == words # <<>> /\ words[1] = word

\* let city = match location_parts.len() { 8 => parts[3], 4.. => parts[2],
\* _ => { warn!(..); "" } }; the parts are those of location.split("\\, ").
BalfolknlCity(location_parts) ==
    IF Len(location_parts) = 8 THEN location_parts[4]
    ELSE IF Len(location_parts) >= 4 THEN location_parts[3]
    ELSE ""

\* text.contains(pattern) and text.starts_with(pattern), for a pattern of
\* whole words: in the texts of the model a pattern occurs as whole words or
\* not at all.
HasWords(text, pattern) ==
    \E i \in 0..(Len(text) - Len(pattern)) :
        \A k \in 1..Len(pattern) : text[i + k] = pattern[k]

StartsWithWords(text, pattern) ==
    /\ Len(text) >= Len(pattern)
    /\ \A k \in 1..Len(pattern) : text[k] = pattern[k]

\* const BANDS: [&str; 31], each name the sequence of its words (an e with an
\* acute accent is written e).
BANDS ==
    << <<"Achterband">>,
       <<"Androneda">>,
       <<"Artisjok">>,
       <<"Aurelien", "Claranbaux">>,
       <<"Beat", "Bouet", "Trio">>,
       <<"Berkenwerk">>,
       <<"BmB">>,
       <<"Celts", "without", "Borders">>,
       <<"Duo", "Absynthe">>,
       <<"Duo", "Mackie/Hendrix">>,
       <<"Duo", "Roblin-Thebaut">>,
       <<"Emelie", "Waldken">>,
       <<"Fahrenheit">>,
       <<"Geronimo">>,
       <<"Hartwin", "Dhoore">>,
       <<"La", "Sauterelle">>,
       <<"Laouen">>,
       <<"Les", "Bottines", "Artistiques">>,
       <<"Les", "Zeoles">>,
       <<"Madlot">>,
       <<"Mieneke">>,
       <<"Momiro">>,
       <<"Naragonia">>,
       <<"Nebel">>,
       <<"Nubia">>,
       <<"Paracetamol">>,
       <<"QuiVive">>,
       <<"Swinco">>,
       <<"Wilma">>,
       <<"Wouter", "en", "de", "Draak">>,
       <<"Wouter", "Kuyper">> >>

\* let workshop = ..., of the name and the unescaped description. A pattern
\* that ends in a space needs a word after it.
BalfolknlWorkshop(name, description) ==
    \/ HasWords(name, <<"Fundamentals">>)
    \/ HasWords(name, <<"Basis", "van">>)
    \/ HasWords(name, <<"beginnerslessen">>)
    \/ HasWords(name, <<"danslessen">>)
    \/ HasWords(name, <<"workshop">>)
    \/ (StartsWithWords(name, <<"Socialles">>) /\ Len(name) > 1)
    \/ (StartsWithWords(name, <<"Proefles">>) /\ Len(name) > 1)
    \/ name = <<"DenneFeest">>
    \/ name = <<"Folkbal", "Wilhelmina">>
    \/ HasWords(description, <<"Dansworkshop">>)
    \/ HasWords(description, <<"Workshopbeschrijving">>)
    \/ \E i \in 1..(Len(description) - 1) : description[i] = "Workshop"
    \/ HasWords(description, <<"dans", "uitleg">>)
    \/ HasWords(description, <<"dansuitleg">>)
    \/ \E i \in 2..(Len(description) - 1) : description[i] = "leren"
    \/ HasWords(description, <<"Vooraf", "dansuitleg">>)
    \/ HasWords(description, <<"de", "Docent">>)

\* let social = ...
BalfolknlSocial(name, description) ==
    \/ HasWords(name, <<"Social", "dance">>)
    \/ HasWords(name, <<"Balfolkbal">>)
    \/ HasWords(name, <<"Avondbal">>)
    \/ HasWords(name, <<"Bal", "in">>)
    \/ HasWords(name, <<"Balfolk", "Bal">>)
    \/ HasWords(name, <<"Vuurbal">>)
    \/ StartsWithWords(name, <<"Balfolk", "Wilhelmina">>)
    \/ StartsWithWords(name, <<"Fest", "Noz">>)
    \/ StartsWithWords(name, <<"Folkwoods">>)
    \/ StartsWithWords(name, <<"Folkbal">>)
    \/ (StartsWithWords(name, <<"Socialles">>) /\ Len(name) > 1)
    \/ StartsWithWords(name, <<"Verjaardagsbal">>)
    \/ StartsWithWords(name, <<"Balfolk", "Utrecht", "Bal">>)
    \/ name = <<"Balfolk", "cafe", "Nijmegen">>
    \/ name = <<"DenneFeest">>
    \/ name = <<"Folkbal", "Wilhelmina">>
    \/ HasWords(description, <<"Bal", "deel">>)

\* let bands = if social { BANDS.iter().filter_map(|band| if
\* description.contains(band) { Some(..) } else { None }).collect() } else
\* { vec![] }
BalfolknlBands(social, description) ==
    IF social
    THEN SelectSeq(BANDS, LAMBDA band : HasWords(description, band))
    ELSE <<>>

\* An upstream VEVENT of balfolk.nl: the properties convert reads, each
\* Some(..) or Missing; summary is a text, location the parts between "\, ".
BalfolknlEvent(url, summary, description, start, end, location) ==
    [ component |-> "Event", url |-> url, summary |-> summary,
      description |-> description, start |-> start, end |-> end,
      location |-> location ]

\* A calendar component that is not an event.
OtherComponent == [component |-> "Todo"]

\* fn convert(event: &Event) -> Result<Option<event::Event>, Report>
BalfolknlConvert(raw) ==
    IF raw.url = Missing THEN ConvertErr("missing url")
    ELSE IF raw.summary = Missing THEN ConvertErr("missing summary")
    ELSE LET raw_name == BeforeLastComma(raw.summary.val)
             name == EmDash(raw_name)
         IN
         IF StartsWith(name, "Muziekstage") THEN Skipped
         ELSE IF raw.description = Missing THEN ConvertErr("missing description")
         ELSE LET description == raw.description.val
                  time == GetTime(raw.start, raw.end)
                  social == BalfolknlSocial(name, description)
              IN
              IF ~ time.ok THEN ConvertErr(time.error)
              ELSE IF raw.location = Missing THEN ConvertErr("missing location")
              ELSE ConvertedTo(
                    [ name |-> name,
                      links |-> <<raw.url.val>>,
                      time |-> time.time,
                      country |-> "Netherlands",
                      city |-> BalfolknlCity(raw.location.val),
                      styles |-> <<"Balfolk">>,
                      workshop |-> BalfolknlWorkshop(name, description),
                      social |-> social,
                      bands |-> BalfolknlBands(social, description),
                      callers |-> <<>>,
                      price |-> Missing,
                      organisation |-> Some("balfolk.nl"),
                      cancelled |-> FALSE ])

\* if let CalendarComponent::Event(event) = component { convert(event) } else
\* the component is left out.
BalfolknlComponent(component) ==
    IF component.component = "Event" THEN BalfolknlConvert(component) ELSE Skipped

\* The longest feed an importer is run on.
MaxFeed == 2

Amsterdam1900 == WithTimezone(LocalTime(Date(2022, 4, 1), 19, 0), "Europe/Amsterdam")

GoodLocation == Some(<<"De Schalm", "Dorpsstraat 1", "Utrecht", "Netherlands">>)

\* A well-formed timestamped event.
GoodEvent ==
    BalfolknlEvent(Some("https://www.balfolk.nl/e/1"),
                   Some(<<"Balfolk", "Bal", "-", "Utrecht", ",", "Utrecht">>),
                   Some(<<"Bal", "deel">>), Amsterdam1900, Amsterdam1900, GoodLocation)

\* A well-formed whole-day event of one day (DTEND is the day after DTSTART).
GoodWholeDay ==
    BalfolknlEvent(Some("https://www.balfolk.nl/e/2"),
                   Some(<<"Folkwoods", ",", "Eindhoven">>),
                   Some(<<"Festival">>),
                   DateOnlyValue(Date(2022, 4, 1)), DateOnlyValue(Date(2022, 4, 2)),
                   GoodLocation)

\* The upstream events of the model: the two well-formed ones, and GoodEvent
\* with one thing changed: a property missing, a music workshop, a location
\* of 3 or of 8 parts, a whole-day event whose DTEND equals its DTSTART, a
\* date with a timestamp, a ball with two bands, a ball with a band in lower
\* case, a concert with a band, a ball with a band in its summary only; and a
\* component that is no event.
BalfolknlPool ==
    { GoodEvent, GoodWholeDay, OtherComponent,
      [GoodEvent EXCEPT !.url = Missing],
      [GoodEvent EXCEPT !.summary = Missing],
      [GoodEvent EXCEPT !.description = Missing],
      [GoodEvent EXCEPT !.start = Missing],
      [GoodEvent EXCEPT !.end = Missing],
      [GoodEvent EXCEPT !.location = Missing],
      [GoodEvent EXCEPT !.summary = Some(<<"Muziekstage", "-", "Accordeon", ",", "Utrecht">>)],
      [GoodEvent EXCEPT !.url = Some("https://www.balfolk.nl/e/3"),
                        !.location = Some(<<"De Schalm", "Utrecht", "Netherlands">>)],
      [GoodEvent EXCEPT !.url = Some("https://www.balfolk.nl/e/4"),
                        !.location = Some(<<"Zaal", "De Schalm", "Dorpsstraat 1", "Utrecht",
                                            "3500 AA", "Utrecht", "UT", "Netherlands">>)],
      [GoodWholeDay EXCEPT !.url = Some("https://www.balfolk.nl/e/5"),
                           !.end = DateOnlyValue(Date(2022, 4, 1))],
      [GoodEvent EXCEPT !.start = DateOnlyValue(Date(2022, 4, 1))],
      [GoodEvent EXCEPT !.url = Some("https://www.balfolk.nl/e/6"),
                        !.description = Some(<<"Bal", "deel", "Wilma", "en", "Naragonia">>)],
      [GoodEvent EXCEPT !.url = Some("https://www.balfolk.nl/e/7"),
                        !.description = Some(<<"Bal", "deel", "naragonia">>)],
      [GoodEvent EXCEPT !.url = Some("https://www.balfolk.nl/e/8"),
                        !.summary = Some(<<"Concert", "Naragonia", ",", "Utrecht">>),
                        !.description = Some(<<"Concert", "Naragonia">>)],
      [GoodEvent EXCEPT !.url = Some("https://www.balfolk.nl/e/9"),
                        !.summary = Some(<<"Bal", "in", "Utrecht", "Wilma", ",", "Utrecht">>)] }

\* Result<Events, Report>
ImportOk(events) == [kind |-> "Ok", events |-> events]

ImportErr(msg) == [kind |-> "Err", error |-> msg]

NoImportResult == [kind |-> "none"]

ImportIdle ==
    /\ imp_pc = "idle"
    /\ imp_source = "none"
    /\ imp_feed = <<>>
    /\ imp_i = 1
    /\ imp_out = <<>>
    /\ imp_result = NoImportResult

\* balfolknl::import_events has fetched and parsed the calendar.
BalfolknlInit ==
    /\ imp_pc = "run"
    /\ imp_source = "balfolknl"
    /\ imp_feed \in UNION { [1..n -> BalfolknlPool] : n \in 0..MaxFeed }
    /\ imp_i = 1
    /\ imp_out = <<>>
    /\ imp_result = NoImportResult

\* One element of calendar.iter().filter_map(..).collect::<Result<_, _>>()?:
\* Ok(Some(event)) is collected, Ok(None) is left out, and the first Err ends
\* the collection and is what import_events returns. A panic of convert
\* unwinds through import_events.
ImportStep(converted) ==
    /\ imp_pc = "run"
    /\ imp_i <= Len(imp_feed)
    /\ IF converted.kind = "Err"
       THEN /\ imp_result' = ImportErr(converted.error)
            /\ imp_pc' = "done"
            /\ UNCHANGED <<imp_i, imp_out>>
       ELSE IF converted.kind = "Panic"
       THEN /\ imp_result' = Panicked
            /\ imp_pc' = "done"
            /\ UNCHANGED <<imp_i, imp_out>>
       ELSE /\ imp_out' = IF converted.kind = "Some"
                          THEN Append(imp_out, converted.event)
                          ELSE imp_out
            /\ imp_i' = imp_i + 1
            /\ UNCHANGED <<imp_pc, imp_result>>
    /\ UNCHANGED <<imp_source, imp_feed>>

BalfolknlStep ==
    /\ imp_source = "balfolknl"
    /\ imp_pc = "run"
    /\ imp_i <= Len(imp_feed)
    /\ ImportStep(BalfolknlComponent(imp_feed[imp_i]))
    /\ UNCHANGED <<cd_pc, cd_input, cd_result>>
    /\ ImportFrame

\* The iterator is exhausted: Ok(Events { events }).
ImportFinish ==
    /\ imp_pc = "run"
    /\ imp_i > Len(imp_feed)
    /\ imp_result' = ImportOk(imp_out)
    /\ imp_pc' = "done"
    /\ UNCHANGED <<imp_source, imp_feed, imp_i, imp_out>>
    /\ UNCHANGED <<cd_pc, cd_input, cd_result>>
    /\ ImportFrame

(***************************************************************************)
(* importers/plugevents/mod.rs: convert and import_events                  *)
(***************************************************************************)

\* An event of the plug.events API: its name, link, venue, times and price.
\* start and end are start_date_time_iso and end_date_time_iso after
\* .with_timezone(&event.timezone).fixed_offset(), which keep the instant.
\* price_display is Missing or the sequence of the characters of the string;
\* the pound and the euro sign are written "GBP" and "EUR".
PlugEvent(name, plug_url, venue_locale, start, end, is_free, price_display) ==
    [ name |-> name, plug_url |-> plug_url, venue_locale |-> venue_locale,
      start |-> start, end |-> end, is_free |-> is_free,
      price_display |-> price_display ]

\* price.replace(" ", "")
RemoveSpaces(price) == SelectSeq(price, LAMBDA c : c # " ")

\* price.replace("-", &format!("-{}", currency))
RECURSIVE CurrencyAfterHyphens(_, _)
CurrencyAfterHyphens(price, currency) ==
    IF price = <<>> THEN <<>>
    ELSE (IF Head(price) = "-" THEN <<"-", currency>> ELSE <<Head(price)>>)
         \o CurrencyAfterHyphens(Tail(price), currency)

\* The characters of "$", pound sign, euro sign.
CurrencySymbols == {"$", "GBP", "EUR"}

\* The price the documentation of format_price describes: a value for every
\* price_display, the empty string for one without any character but spaces.
DescribedPrice(event) ==
    IF event.is_free THEN Some(<<"f", "r", "e", "e">>)
    ELSE IF event.price_display = Missing THEN Missing
    ELSE LET price == RemoveSpaces(event.price_display.val) IN
         IF price # <<>> /\ price[1] \in CurrencySymbols
         THEN Some(CurrencyAfterHyphens(price, price[1]))
         ELSE Some(price)

\* fn format_price(event: &Event) -> Option<String>;
\* price.chars().next().unwrap() panics when no character is left.
FormatPrice(event) ==
    IF event.is_free THEN Some(<<"f", "r", "e", "e">>)
    ELSE IF event.price_display = Missing THEN Missing
    ELSE LET price == RemoveSpaces(event.price_display.val) IN
         IF price = <<>> THEN Panicked
         ELSE LET currency == price[1] IN
              IF currency \in CurrencySymbols
              THEN Some(CurrencyAfterHyphens(price, currency))
              ELSE Some(price)

\* .with_second(0).unwrap().with_nanosecond(0).unwrap()
ZeroSeconds(dt) == [dt EXCEPT !.local.s = 0]

\* fn convert(event: &Event, style: DanceStyle); venue_locale is given as its
\* parts between ", ", of which split yields at least one, so that .last()
\* is never None.
PlugeventsConvert(raw) ==
    IF raw.venue_locale = Missing THEN Skipped
    ELSE LET locale_parts == raw.venue_locale.val
             price == FormatPrice(raw)
         IN
         IF price = Panicked THEN Panicked
         ELSE ConvertedTo(
            [ name |-> raw.name,
              links |-> <<raw.plug_url>>,
              time |-> DateTimeOf(ZeroSeconds(raw.start), raw.end),
              country |-> locale_parts[Len(locale_parts)],
              state |-> Missing,
              city |-> IF Len(locale_parts) > 3 THEN locale_parts[2] ELSE locale_parts[1],
              styles |-> <<"Balfolk">>,
              bands |-> <<>>,
              callers |-> <<>>,
              price |-> price,
              cancelled |-> FALSE ])

PlugTime(h, mi, sec) ==
    [local |-> LocalTimeS(Date(2024, 5, 3), h, mi, sec), offset |-> CEST]

GoodPlugEvent ==
    PlugEvent("Bal in Utrecht", "https://plug.events/e/1",
              Some(<<"Utrecht", "Netherlands">>), PlugTime(20, 0, 30), PlugTime(22, 0, 0),
              FALSE, Missing)

\* The price_display strings of the model: the two of the tests, prices
\* without a currency symbol or without a hyphen, the empty string and a
\* string of spaces.
PriceDisplays ==
    { <<"EUR", " ", "1", "0">>,
      <<"EUR", " ", "5", "-", "2", "3">>,
      <<"5", "-", "2", "3", " ", "EUR">>,
      <<"$", "5", " ", "-", " ", "8", "-", "1", "0">>,
      <<>>,
      <<" ", " ">> }

\* The plug.events events of the model: a well-formed one without price, one
\* without venueLocale, one with a venueLocale of four parts, one that ends
\* at the second it starts, one that ends on the full minute it starts in,
\* a free one, with and without a price_display, and one of each
\* price_display.
PlugeventsPool ==
    { GoodPlugEvent,
      [GoodPlugEvent EXCEPT !.venue_locale = Missing],
      [GoodPlugEvent EXCEPT !.plug_url = "https://plug.events/e/2",
                            !.venue_locale = Some(<<"De Schalm", "Utrecht", "UT", "Netherlands">>)],
      [GoodPlugEvent EXCEPT !.plug_url = "https://plug.events/e/3",
                            !.end = PlugTime(20, 0, 30)],
      [GoodPlugEvent EXCEPT !.plug_url = "https://plug.events/e/4",
                            !.end = PlugTime(20, 0, 0)],
      [GoodPlugEvent EXCEPT !.is_free = TRUE],
      [GoodPlugEvent EXCEPT !.is_free = TRUE, !.price_display = Some(<<>>)] }
    \cup { [GoodPlugEvent EXCEPT !.price_display = Some(p)] : p \in PriceDisplays }

\* plugevents::import_events has fetched and parsed the event list.
PlugeventsInit ==
    /\ imp_pc = "run"
    /\ imp_source = "plugevents"
    /\ imp_feed \in UNION { [1..n -> PlugeventsPool] : n \in 0..MaxFeed }
    /\ imp_i = 1
    /\ imp_out = <<>>
    /\ imp_result = NoImportResult

\* events.iter().filter_map(|event| convert(event, style).transpose())
PlugeventsStep ==
    /\ imp_source = "plugevents"
    /\ imp_pc = "run"
    /\ imp_i <= Len(imp_feed)
    /\ ImportStep(PlugeventsConvert(imp_feed[imp_i]))
    /\ UNCHANGED <<cd_pc, cd_input, cd_result>>
    /\ ImportFrame

(***************************************************************************)
(* importers/cdss/mod.rs: convert                                          *)
(***************************************************************************)

\* str::to_lowercase, on the words of the model: those listed have an upper
\* case letter, every other word of the model is in lower case already.
LowerWord(w) ==
    CASE w = "Absynthe" -> "absynthe"
      [] w = "Achterband" -> "achterband"
      [] w = "Androneda" -> "androneda"
      [] w = "Artisjok" -> "artisjok"
      [] w = "Artistiques" -> "artistiques"
      [] w = "Asparagus" -> "asparagus"
      [] w = "Aurelien" -> "aurelien"
      [] w = "Bal" -> "bal"
      [] w = "Balfolk" -> "balfolk"
      [] w = "Beat" -> "beat"
      [] w = "Berkenwerk" -> "berkenwerk"
      [] w = "BmB" -> "bmb"
      [] w = "Borders" -> "borders"
      [] w = "Bottines" -> "bottines"
      [] w = "Bouet" -> "bouet"
      [] w = "Calling" -> "calling"
      [] w = "Celts" -> "celts"
      [] w = "Claranbaux" -> "claranbaux"
      [] w = "Concert" -> "concert"
      [] w = "Contra" -> "contra"
      [] w = "Dance" -> "dance"
      [] w = "Dhoore" -> "dhoore"
      [] w = "Draak" -> "draak"
      [] w = "Duo" -> "duo"
      [] w = "Elixir" -> "elixir"
      [] w = "Emelie" -> "emelie"
      [] w = "Fahrenheit" -> "fahrenheit"
      [] w = "Folk" -> "folk"
      [] w = "George" -> "george"
      [] w = "Geronimo" -> "geronimo"
      [] w = "Hartwin" -> "hartwin"
      [] w = "Kuyper" -> "kuyper"
      [] w = "La" -> "la"
      [] w = "Laouen" -> "laouen"
      [] w = "Les" -> "les"
      [] w = "Lesson" -> "lesson"
      [] w = "Mackie/Hendrix" -> "mackie/hendrix"
      [] w = "Madlot" -> "madlot"
      [] w = "Marshall" -> "marshall"
      [] w = "Mieneke" -> "mieneke"
      [] w = "Momiro" -> "momiro"
      [] w = "Music" -> "music"
      [] w = "Naragonia" -> "naragonia"
      [] w = "Nebel" -> "nebel"
      [] w = "Night" -> "night"
      [] w = "Nubia" -> "nubia"
      [] w = "Online" -> "online"
      [] w = "Paracetamol" -> "paracetamol"
      [] w = "QuiVive" -> "quivive"
      [] w = "Roblin-Thebaut" -> "roblin-thebaut"
      [] w = "Sauterelle" -> "sauterelle"
      [] w = "Swinco" -> "swinco"
      [] w = "Trio" -> "trio"
      [] w = "Utrecht" -> "utrecht"
      [] w = "WILD" -> "wild"
      [] w = "Waldken" -> "waldken"
      [] w = "Wild" -> "wild"
      [] w = "Wilma" -> "wilma"
      [] w = "Wouter" -> "wouter"
      [] w = "Zeoles" -> "zeoles"
      [] OTHER -> w

ToLowercase(words) == [i \in 1..Len(words) |-> LowerWord(words[i])]

\* text.contains(pattern), for a pattern of whole words.
ContainsWords(text, pattern) ==
    \E i \in 0..(Len(text) - Len(pattern)) :
        \A k \in 1..Len(pattern) : text[i + k] = pattern[k]

\* categories.contains(&c)
ContainsCategory(categories, c) == \E i \in 1..Len(categories) : categories[i] = c

\* get_styles taking any category at all for a contra dance.
GetStyles_AnyCategory(categories, summary) ==
    IF categories # <<>> THEN <<"Contra">> ELSE <<>>

\* fn get_styles(categories: &[&str], summary: &str) -> Vec<DanceStyle>
GetStyles(categories, summary) ==
    LET summary_lowercase == ToLowercase(summary) IN
    (IF ContainsCategory(categories, "Contra Dance") THEN <<"Contra">> ELSE <<>>)
    \o (IF ContainsCategory(categories, "English Country Dance")
        THEN <<"EnglishCountryDance">> ELSE <<>>)
    \o (IF \/ ContainsWords(summary_lowercase, <<"bal", "folk">>)
           \/ ContainsWords(summary_lowercase, <<"balfolk">>)
        THEN <<"Balfolk">> ELSE <<>>)

\* The arguments of convert: the CATEGORIES properties of the event (Missing,
\* or the list of properties, each the list of its comma-separated values)
\* and, of the EventParts, url, summary, description, location_parts and
\* time.
CdssInput(categories, summary, description, location_parts) ==
    [ categories |-> categories, url |-> "https://cdss.org/event/1",
      summary |-> summary, description |-> description,
      location_parts |-> location_parts,
      time |-> DateOnly(Date(2022, 4, 1), Date(2022, 4, 1)) ]

\* Country, state and city of a location of at least three parts; the index
\* len - 4 does not exist in a location of three parts.
CdssLocation(location_parts) ==
    LET len == Len(location_parts)
        last == location_parts[len]
        country == IF last = "United States" THEN "USA"
                   ELSE IF last = "United Kingdom" THEN "UK"
                   ELSE last
    IN
    IF country \in {"Canada", "USA"}
    THEN IF len - 4 < 0
         THEN Panicked
         ELSE [ kind |-> "Ok", country |-> country,
                state |-> Some(location_parts[len - 3 + 1]),
                city |-> location_parts[len - 4 + 1] ]
    ELSE [ kind |-> "Ok", country |-> country, state |-> Missing,
           city |-> location_parts[len - 3 + 1] ]

\* The rosters importers::BANDS and importers::CALLERS, each name the sequence
\* of its words.
CdssBANDS == << <<"Elixir">>, <<"Wild", "Asparagus">> >>

CdssCALLERS == << <<"George", "Marshall">> >>

\* icalendar::lowercase_matches(needles, description_lower, summary_lower):
\* the names of the roster, in its order, whose lower-cased form occurs in
\* the lower-cased description or summary.
LowercaseMatches(needles, description_lower, summary_lower) ==
    SelectSeq(needles, LAMBDA needle :
        \/ HasWords(description_lower, ToLowercase(needle))
        \/ HasWords(summary_lower, ToLowercase(needle)))

\* let workshop = ...
CdssWorkshop(description_lower) ==
    \/ (/\ HasWords(description_lower, <<"lesson">>)
        /\ ~ HasWords(description_lower, <<"no", "lesson">>))
    \/ HasWords(description_lower, <<"skills", "session">>)
    \/ HasWords(description_lower, <<"workshops">>)
    \/ HasWords(description_lower, <<"beginner", "workshop">>)
    \/ HasWords(description_lower, <<"beginners", "workshop">>)
    \/ HasWords(description_lower, <<"introductory", "session">>)
    \/ HasWords(description_lower, <<"introductory", "workshop">>)
    \/ HasWords(description_lower, <<"intro", "session">>)

\* The matches of Regex::new(r"\$([0-9]+)") in a word of a description: for
\* each match the digits of capture group 1, as a sequence of characters. A
\* word that is not listed has no match.
PriceCaptures(w) ==
    CASE w = "$5" -> << <<"5">> >>
      [] w = "$12" -> << <<"1", "2">> >>
      [] w = "$007" -> << <<"0", "0", "7">> >>
      [] w = "$7" -> << <<"7">> >>
      [] w = "$8-$20" -> << <<"8">>, <<"2", "0">> >>
      [] w = "$0" -> << <<"0">> >>
      [] w = "$4294967295" -> << <<"4", "2", "9", "4", "9", "6", "7", "2", "9", "5">> >>
      [] w = "$4294967296" -> << <<"4", "2", "9", "4", "9", "6", "7", "2", "9", "6">> >>
      [] OTHER -> <<>>

\* price_regex.captures_iter(description), capture.get(1).unwrap().as_str()
RECURSIVE CapturesIter(_)
CapturesIter(description) ==
    IF description = <<>> THEN <<>>
    ELSE PriceCaptures(Head(description)) \o CapturesIter(Tail(description))

DigitValue(c) ==
    CASE c = "0" -> 0 [] c = "1" -> 1 [] c = "2" -> 2 [] c = "3" -> 3
      [] c = "4" -> 4 [] c = "5" -> 5 [] c = "6" -> 6 [] c = "7" -> 7
      [] c = "8" -> 8 [] c = "9" -> 9

\* A number is the sequence of its decimal digits without leading zeros, as
\* Display writes it.
RECURSIVE StripLeadingZeros(_)
StripLeadingZeros(digits) ==
    IF Len(digits) > 1 /\ Head(digits) = "0"
    THEN StripLeadingZeros(Tail(digits))
    ELSE digits

\* a < b on numbers
RECURSIVE DigitsLess(_, _)
DigitsLess(a, b) ==
    IF Len(a) # Len(b) THEN Len(a) < Len(b)
    ELSE IF a = <<>> THEN FALSE
    ELSE IF Head(a) # Head(b) THEN DigitValue(Head(a)) < DigitValue(Head(b))
    ELSE DigitsLess(Tail(a), Tail(b))

\* u32::MAX = 4294967295 and u32::MIN = 0
U32_MAX == <<"4", "2", "9", "4", "9", "6", "7", "2", "9", "5">>

U32_MIN == <<"0">>

\* str::parse::<u32>() of a non-empty string of digits: the number, or
\* Missing for the error of a number above u32::MAX.
ParseU32(digits) ==
    LET n == StripLeadingZeros(digits) IN
    IF DigitsLess(U32_MAX, n) THEN Missing ELSE Some(n)

DigitsMin(a, b) == IF DigitsLess(b, a) THEN b ELSE a

DigitsMax(a, b) == IF DigitsLess(a, b) THEN b ELSE a

\* The loop of get_price over the captures: the pair of min_price and
\* max_price after it, or Missing when a parse failed and ? returned.
RECURSIVE PriceRange(_, _, _)
PriceRange(captures, min_price, max_price) ==
    IF captures = <<>> THEN Some(<<min_price, max_price>>)
    ELSE LET price == ParseU32(Head(captures)) IN
         IF price = Missing THEN Missing
         ELSE PriceRange(Tail(captures), DigitsMin(price.val, min_price),
                         DigitsMax(price.val, max_price))

\* fn get_price(description: &str) -> Result<Option<String>, Report>
\* The result is the error, or the Option of the Ok; the string is the
\* sequence of its characters.
GetPrice(description) ==
    LET range == PriceRange(CapturesIter(description), U32_MAX, U32_MIN) IN
    IF range = Missing THEN ConvertErr("Invalid price")
    ELSE LET min_price == range.val[1]
             max_price == range.val[2]
         IN
         IF min_price = U32_MAX THEN Missing
         ELSE IF min_price = max_price THEN Some(<<"$">> \o min_price)
         ELSE Some(<<"$">> \o min_price \o <<"-", "$">> \o max_price)

\* fn convert(event: &Event, parts: EventParts)
\*     -> Result<Option<event::Event>, Report>
\* The summaries of the model carry none of the affixes convert trims from the
\* name, and apply_fixes knows none of the names.
CdssConvert(in) ==
    IF in.categories = Missing THEN ConvertErr("missing categories")
    ELSE IF in.categories.val = <<>> THEN ConvertErr("has empty categories")
    ELSE LET categories == in.categories.val[1]
             summary_lowercase == ToLowercase(in.summary)
             styles == GetStyles(categories, in.summary)
         IN
         IF \/ ContainsCategory(categories, "Online Event")
            \/ ContainsWords(summary_lowercase, <<"online">>)
         THEN Skipped
         ELSE IF styles = <<>> THEN Skipped
         ELSE IF in.location_parts = Missing THEN ConvertErr("missing location")
         ELSE IF Len(in.location_parts.val) < 3 THEN Skipped
         ELSE LET loc == CdssLocation(in.location_parts.val)
                  price == GetPrice(in.description)
              IN
              IF loc = Panicked THEN Panicked
              ELSE IF price = ConvertErr("Invalid price") THEN price
              ELSE ConvertedTo(
                    [ name |-> in.summary,
                      links |-> <<in.url>>,
                      time |-> in.time,
                      country |-> loc.country,
                      state |-> loc.state,
                      city |-> loc.city,
                      styles |-> styles,
                      workshop |-> CdssWorkshop(ToLowercase(in.description)),
                      social |-> TRUE,
                      bands |-> LowercaseMatches(CdssBANDS, ToLowercase(in.description),
                                                 ToLowercase(in.summary)),
                      callers |-> LowercaseMatches(CdssCALLERS, ToLowercase(in.description),
                                                   ToLowercase(in.summary)),
                      price |-> price,
                      cancelled |-> FALSE ])

CdssCategories ==
    { Missing, Some(<<>>), Some(<< <<"Contra Dance">> >>),
      Some(<< <<"English Country Dance", "Contra Dance">> >>),
      Some(<< <<"Online Event", "Contra Dance">> >>),
      Some(<< <<"Concert">> >>) }

CdssSummaries ==
    { <<"Contra", "Dance">>, <<"Bal", "Folk", "Night">>, <<"Online", "Contra">> }

\* The descriptions: none; one that names both bands of the roster, the
\* second before the first and in capitals, and a caller; and descriptions
\* with a '$' without digits, with one amount, with the same amount twice,
\* with amounts in one word and out of order, and with amounts at and above
\* u32::MAX.
CdssDescriptions ==
    { <<>>,
      <<"Music", "by", "WILD", "Asparagus", "and", "Elixir", ",", "George", "Marshall",
        "calling">>,
      <<"pay", "in", "$", "at", "the", "door">>,
      <<"admission", "$5">>,
      <<"$007", "or", "$7", "members">>,
      <<"$12", "adults", "$5", "students", "$8-$20", "families">>,
      <<"donation", "$4294967295">>,
      <<"from", "$0", "to", "$4294967295">>,
      <<"$5", "or", "$4294967296">> }

CdssCountries == {"United States", "USA", "Canada", "United Kingdom", "France"}

\* A full location, venue to country.
FullLocation(country) == <<"Guiding Star Grange", "Greenfield", "MA", "01301", country>>

\* The locations: missing, empty, and the last 1 to 5 parts of a full one.
CdssLocations ==
    {Missing, Some(<<>>)}
    \cup { Some(SubSeq(FullLocation(c), 5 - n + 1, 5)) : c \in CdssCountries, n \in 1..5 }

CdssIdle ==
    /\ cd_pc = "idle"
    /\ cd_input = CdssInput(Missing, <<>>, <<>>, Missing)
    /\ cd_result = [kind |-> "none"]

\* The iCalendar framework calls convert on an event of the CDSS calendar.
CdssInit ==
    /\ cd_pc = "call"
    /\ \E c \in CdssCategories, sm \in CdssSummaries, d \in CdssDescriptions,
          l \in CdssLocations :
        cd_input = CdssInput(c, sm, d, l)
    /\ cd_result = [kind |-> "none"]

CdssConvertCall ==
    /\ cd_pc = "call"
    /\ cd_result' = CdssConvert(cd_input)
    /\ cd_pc' = "done"
    /\ UNCHANGED <<cd_input, imp_pc, imp_source, imp_feed, imp_i, imp_out, imp_result>>
    /\ ImportFrame

ImportNext ==
    \/ BalfolknlStep
    \/ PlugeventsStep
    \/ ImportFinish
    \/ CdssConvertCall

(***************************************************************************)
(* Properties of the importers                                             *)
(***************************************************************************)

\* The upstream event lacks its URL, summary, description, start or end time,
\* or location.
LacksMandatoryField(c) ==
    /\ c.component = "Event"
    /\ \E f \in {"url", "summary", "description", "start", "end", "location"} : c[f] = Missing

\* The events of the convertible components of a feed, in feed order.
RECURSIVE ConvertibleEvents(_)
ConvertibleEvents(feed) ==
    IF feed = <<>> THEN <<>>
    ELSE LET converted == BalfolknlComponent(feed[1]) IN
         (IF converted.kind = "Some" THEN <<converted.event>> ELSE <<>>)
         \o ConvertibleEvents(Tail(feed))

\* C6: a balfolk.nl event that lacks a mandatory field is skipped alone: when
\* the only components of a feed that fail to convert are events lacking a
\* mandatory field, import_events returns Ok with every convertible event of
\* the feed, in order.
C6_MissingFieldSkipsOnlyThatEvent ==
    (/\ imp_source = "balfolknl"
     /\ imp_pc = "done"
     /\ \A i \in 1..Len(imp_feed) :
            \/ BalfolknlComponent(imp_feed[i]).kind # "Err"
            \/ LacksMandatoryField(imp_feed[i]))
    => imp_result = ImportOk(ConvertibleEvents(imp_feed))

\* C7: an event whose location has too few parts for country, state and city
\* gives no Event: the balfolk.nl importer emits no event for a location of
\* fewer than 4 parts and none with an empty city; the CDSS convert never
\* panics, returns Ok(None) for a location of fewer than 3 parts and for one
\* of 3 parts in the USA or Canada, and never returns an empty city.
C7_ShortLocationIsSkipped ==
    /\ imp_source = "balfolknl" =>
        /\ \A k \in 1..Len(imp_out) : imp_out[k].city # ""
        /\ \A i \in 1..(imp_i - 1) :
            (/\ imp_feed[i].component = "Event"
             /\ imp_feed[i].location # Missing
             /\ Len(imp_feed[i].location.val) < 4)
            => BalfolknlComponent(imp_feed[i]).kind # "Some"
    /\ cd_pc = "done" =>
        /\ cd_result.kind # "Panic"
        /\ cd_result.kind = "Some" => cd_result.event.city # ""
        /\ (/\ cd_input.location_parts # Missing
            /\ Len(cd_input.location_parts.val) < 3)
           => cd_result.kind # "Some"

\* end >= start of an EventTime: by date for DateOnly, by instant for DateTime.
EndNotBeforeStart(time) ==
    IF time.kind = "DateOnly"
    THEN DateLeq(time.start_date, time.end_date)
    ELSE InstantSeconds(time.start) <= InstantSeconds(time.end)

\* C9: every Event an importer emits has end >= start.
C9_EndNotBeforeStart ==
    /\ \A k \in 1..Len(imp_out) : EndNotBeforeStart(imp_out[k].time)
    /\ cd_result.kind = "Some" => EndNotBeforeStart(cd_result.event.time)

\* The event names a style: a 'Contra Dance' or 'English Country Dance'
\* category, or 'bal folk' or 'balfolk' in its lower-cased summary.
NamesAStyle(in) ==
    \/ ContainsCategory(in.categories.val[1], "Contra Dance")
    \/ ContainsCategory(in.categories.val[1], "English Country Dance")
    \/ ContainsWords(ToLowercase(in.summary), <<"bal", "folk">>)
    \/ ContainsWords(ToLowercase(in.summary), <<"balfolk">>)

\* C11: an event of the CDSS calendar that names no style gives no Event:
\* convert returns Ok(None) for it, and every Event convert returns has a
\* non-empty styles list.
C11_NoStyleNoEvent ==
    cd_pc = "done" =>
        /\ (/\ cd_input.categories # Missing
            /\ cd_input.categories.val # <<>>
            /\ ~ NamesAStyle(cd_input)) => cd_result = Skipped
        /\ cd_result.kind = "Some" => cd_result.event.styles # <<>>

\* C11's case: convert was called on an event of category Concert, with a
\* full location and nothing about balfolk in its summary, and returned
\* Ok(None).
C11_Witness ==
    /\ cd_pc = "done"
    /\ cd_input.categories = Some(<< <<"Concert">> >>)
    /\ cd_input.summary = <<"Contra", "Dance">>
    /\ cd_input.location_parts = Some(FullLocation("France"))
    /\ cd_result = Skipped

\* The names of a roster, in roster order, whose lower-cased form occurs in
\* the lower-cased summary or in the lower-cased description.
RosterMatches(roster, summary, description) ==
    SelectSeq(roster, LAMBDA n :
        \/ HasWords(ToLowercase(summary), ToLowercase(n))
        \/ HasWords(ToLowercase(description), ToLowercase(n)))

\* C12: the bands of every imported event are exactly the roster names that
\* occur, case-insensitively, in its summary or its description, in roster
\* order: for the events balfolk.nl's import_events has converted and for the
\* event the CDSS convert returns.
C12_BandsAreRosterMatches ==
    /\ imp_source = "balfolknl" =>
        \A i \in 1..(imp_i - 1) :
            LET converted == BalfolknlComponent(imp_feed[i]) IN
            converted.kind = "Some" =>
                converted.event.bands =
                    RosterMatches(BANDS, imp_feed[i].summary.val, imp_feed[i].description.val)
    /\ cd_result.kind = "Some" =>
        cd_result.event.bands
            = RosterMatches(CdssBANDS, cd_input.summary, cd_input.description)

\* The amounts of a description: the numbers written by the digits that
\* follow a '$'.
Amounts(description) ==
    LET captures == CapturesIter(description) IN
    { StripLeadingZeros(captures[i]) : i \in 1..Len(captures) }

\* The number is in 0..4294967295.
FitsU32(n) == ~ DigitsLess(U32_MAX, n)

Least(amounts) == CHOOSE m \in amounts : \A n \in amounts : ~ DigitsLess(n, m)

Greatest(amounts) == CHOOSE m \in amounts : \A n \in amounts : ~ DigitsLess(m, n)

\* C20: get_price returns absent exactly when the description has no '$'
\* followed by digits; when all its amounts fit 32 bits (0 to 4294967295
\* inclusive) it returns "$m" if the least and the greatest amount are the
\* same m and else "$min-$max"; an amount that does not fit yields an error;
\* no value of an amount means 'no price'. The event convert returns has the
\* price get_price returned.
C20_GetPriceOfEveryAmount ==
    cd_pc = "done" =>
        LET amounts == Amounts(cd_input.description)
            result == GetPrice(cd_input.description)
        IN
        /\ (result = Missing) <=> (amounts = {})
        /\ (amounts # {} /\ \A n \in amounts : FitsU32(n)) =>
            result = IF Least(amounts) = Greatest(amounts)
                     THEN Some(<<"$">> \o Least(amounts))
                     ELSE Some(<<"$">> \o Least(amounts) \o <<"-", "$">>
                               \o Greatest(amounts))
        /\ (\E n \in amounts : ~ FitsU32(n)) => result = ConvertErr("Invalid price")
        /\ cd_result.kind = "Some" => cd_result.event.price = result

\* The plug.events events import_events has gone through that have a
\* venueLocale.
PlugeventsKept ==
    SelectSeq(SubSeq(imp_feed, 1, imp_i - 1), LAMBDA e : e.venue_locale # Missing)

\* C18: format_price returns a value for every event, whatever its
\* price_display, the empty string and a string of spaces included: the
\* import of plug.events never panics, and the price of every event it has
\* converted is 'free' for a free event, absent for one that is not free and
\* has no price_display, and else the price_display without its spaces, with
\* its leading currency symbol repeated after every hyphen.
C18_FormatPriceForEveryPriceDisplay ==
    imp_source = "plugevents" =>
        /\ imp_result # Panicked
        /\ Len(imp_out) = Len(PlugeventsKept)
        /\ \A k \in 1..Len(imp_out) :
            imp_out[k].price = DescribedPrice(PlugeventsKept[k])

(***************************************************************************)
(* importers/icalendar/dresden.rs: import_events, with the reconciliation  *)
(* of importers::combine_events                                            *)
(***************************************************************************)

\* const ORGANISATION: &str = "Folktanz Dresden e.V.";
ORGANISATION == "Folktanz Dresden e.V."

\* A canonical Event, as far as reconciliation reads it: the fields of its
\* identity key, its cancelled flag, and price for the fields that come from
\* upstream.
CanonicalEvent(name, links, start_date, price, cancelled) ==
    [ name |-> name, links |-> links, time |-> DateOnly(start_date, start_date),
      country |-> "Germany", city |-> "Dresden", price |-> price,
      organisation |-> Some(ORGANISATION), cancelled |-> cancelled ]

\* The start date of an event.
StartDate(event) ==
    IF event.time.kind = "DateOnly" THEN event.time.start_date
    ELSE event.time.start.local.date

\* The identity key: the primary link when there is one, otherwise
\* (organisation, name, city, start date).
IdentityKey(event) ==
    IF event.links # <<>>
    THEN [link |-> event.links[1]]
    ELSE [ organisation |-> event.organisation, name |-> event.name,
           city |-> event.city, start_date |-> StartDate(event) ]

IdentityKeys(events) == { IdentityKey(events[i]) : i \in 1..Len(events) }

\* The identity-keyed mapping of a set of events: of two events with one key
\* the later in iteration order is kept.
KeyedMapping(events) ==
    [ k \in IdentityKeys(events) |->
        LET last == CHOOSE i \in 1..Len(events) :
                        /\ IdentityKey(events[i]) = k
                        /\ \A j \in (i + 1)..Len(events) : IdentityKey(events[j]) # k
        IN events[last] ]

\* The window of start dates the fetch of a cycle covers (the fetch horizon).
WindowStart == Date(2022, 4, 1)

WindowEnd == Date(2022, 9, 30)

InFetchWindow(event) ==
    /\ DateLeq(WindowStart, StartDate(event))
    /\ DateLeq(StartDate(event), WindowEnd)

\* The corpus a set of events makes. Its order is not specified beyond
\* following from its content; the model fixes one.
CorpusOf(events) ==
    CHOOSE corpus_seq \in [1..Cardinality(events) -> events] :
        \A i, j \in 1..Cardinality(events) : i # j => corpus_seq[i] # corpus_seq[j]

\* The merge keeping the cancellation of the new event only.
MergedEvent_NewWins(old_event, new_event) == new_event

\* The merge cancelling an event when exactly one of the two is cancelled.
MergedEvent_CancelledWhenTheyDiffer(old_event, new_event) ==
    [new_event EXCEPT !.cancelled = (old_event.cancelled # new_event.cancelled)]

\* The event of a key both sets have: the new event, cancelled when the old
\* one was.
MergedEvent(old_event, new_event) ==
    [new_event EXCEPT !.cancelled = IF old_event.cancelled THEN TRUE ELSE new_event.cancelled]

\* Keeping every old event the new set lacks.
RetainedOld_All(old_event) == TRUE

\* An old event the new set lacks is retained when it falls outside the
\* window the fetch covers.
RetainedOld(old_event) == ~ InFetchWindow(old_event)

\* importers::combine_events(old_events, new_events): the reconciliation.
CombineEvents(old_events, new_events) ==
    LET old == KeyedMapping(old_events)
        new == KeyedMapping(new_events)
    IN CorpusOf(
        { MergedEvent(old[k], new[k]) : k \in DOMAIN old \cap DOMAIN new }
        \cup { new[k] : k \in DOMAIN new \ DOMAIN old }
        \cup { old[k] : k \in { x \in DOMAIN old \ DOMAIN new : RetainedOld(old[x]) } })

\* One insertion of a stable sort by start date.
RECURSIVE InsertByStart(_, _)
InsertByStart(sorted, e) ==
    IF sorted = <<>> THEN <<e>>
    ELSE IF DateLeq(StartDate(Head(sorted)), StartDate(e))
         THEN <<Head(sorted)>> \o InsertByStart(Tail(sorted), e)
         ELSE <<e>> \o sorted

\* Events::sort: ascending by start date.
RECURSIVE EventsSort(_)
EventsSort(events) ==
    IF events = <<>> THEN <<>>
    ELSE InsertByStart(EventsSort(SubSeq(events, 1, Len(events) - 1)), events[Len(events)])

\* The link Dresden::fixup inserts before the links of an event, and the one
\* DresdenWeekly::fixup inserts.
DresdenSeriesLink == "https://www.gugelhupf-dresden.de/tanz-in-dresden/"

DresdenWeeklySeriesLink == "https://www.gugelhupf-dresden.de/tanz-am-dienstag/"

\* Tz::Europe__Berlin: CET and CEST with the transitions of Europe/Amsterdam.
BerlinOffsets(lt) == AmsterdamOffsets(lt)

\* util::local_datetime_to_fixed_offset(&local, Tz::Europe__Berlin): the local
\* time with the offset Berlin has at it, None when it has none or two.
LocalDatetimeToFixedOffset(lt) ==
    IF IsSingle(BerlinOffsets(lt))
    THEN Some([local |-> lt, offset |-> TheSingle(BerlinOffsets(lt))])
    ELSE Missing

\* DateTime::naive_utc: the local time less the offset, for the offsets from
\* 0 to a day east of UTC.
NaiveUtc(dt) ==
    LET secs == SecondOfDay(dt.local) - dt.offset
        date == IF secs < 0 THEN NaivePred(dt.local.date) ELSE dt.local.date
        s == IF secs < 0 THEN secs + 86400 ELSE secs
    IN LocalTimeS(date, s \div 3600, (s % 3600) \div 60, s % 60)

\* fn common_fixup(event: &mut Event): the event with the organisation set
\* and its times read as Berlin local times; .expect panics on None.
CommonFixup(event) ==
    LET fixed == [event EXCEPT !.organisation = Some(ORGANISATION)] IN
    IF event.time.kind = "DateTime"
    THEN LET start == LocalDatetimeToFixedOffset(NaiveUtc(event.time.start))
             end == LocalDatetimeToFixedOffset(NaiveUtc(event.time.end))
         IN
         IF start = Missing \/ end = Missing THEN Panicked
         ELSE [fixed EXCEPT !.time = DateTimeOf(start.val, end.val)]
    ELSE fixed

\* Dresden: fn fixup(mut event: Event) -> Option<Event>
DresdenFixup(event) ==
    LET fixed == CommonFixup(event) IN
    IF fixed = Panicked THEN Panicked
    ELSE Some([fixed EXCEPT !.links = <<DresdenSeriesLink>> \o @])

\* DresdenWeekly: fn fixup(mut event: Event) -> Option<Event>
DresdenWeeklyFixup(event) ==
    LET fixed == CommonFixup(event) IN
    IF fixed = Panicked THEN Panicked
    ELSE Some([fixed EXCEPT !.links = <<DresdenWeeklySeriesLink>> \o @])

\* S::fixup of the source S.
Fixup(source, event) ==
    IF source = "Dresden" THEN DresdenFixup(event) ELSE DresdenWeeklyFixup(event)

DresdenOk(events) == [kind |-> "Ok", events |-> events]

DresdenErr(msg) == [kind |-> "Err", error |-> msg]

\* import_new_events::<S>() on a feed that was fetched and parsed: fixup runs
\* on every assembled event, and the events it returns make the batch; a
\* panic of fixup unwinds through the import.
RECURSIVE ImportNewEvents(_, _)
ImportNewEvents(source, upstream) ==
    IF upstream = <<>> THEN DresdenOk(<<>>)
    ELSE LET first == Fixup(source, Head(upstream))
             rest == ImportNewEvents(source, Tail(upstream))
         IN
         IF first = Panicked \/ rest = Panicked THEN Panicked
         ELSE IF first = Missing THEN rest
         ELSE DresdenOk(<<first.val>> \o rest.events)

\* The longest old corpus import_events is first called with, and the
\* longest feed of one endpoint.
MaxOld == 2

MaxBatch == 2

InWindowDay == Date(2022, 5, 3)

BeyondWindowDay == Date(2023, 5, 2)

\* A time of the feeds: written as UTC.
UtcTime(date, h, mi) == [local |-> LocalTime(date, h, mi), offset |-> 0]

\* The events assembled from the feeds, before fixup: a dance inside the
\* window; an event with the same URL, beyond the window, cancelled and at
\* another price; an evening with another URL and with times; and a night
\* with a third URL that starts in the hour the clocks of Berlin skip.
DresdenPool ==
    { CanonicalEvent("Tanzfest", <<"https://dresden.example/tanzfest">>, InWindowDay, Some("5"), FALSE),
      CanonicalEvent("Tanzfest", <<"https://dresden.example/tanzfest">>, BeyondWindowDay, Some("8"), TRUE),
      [CanonicalEvent("Tanzabend", <<"https://dresden.example/tanzabend">>, InWindowDay, Missing, FALSE)
          EXCEPT !.time = DateTimeOf(UtcTime(Date(2022, 5, 10), 19, 0),
                                     UtcTime(Date(2022, 5, 10), 22, 0))],
      [CanonicalEvent("Tanznacht", <<"https://dresden.example/tanznacht">>, InWindowDay, Missing, FALSE)
          EXCEPT !.time = DateTimeOf(UtcTime(Date(2022, 3, 27), 2, 30),
                                     UtcTime(Date(2022, 3, 27), 4, 0))] }

\* The events both fixups make of the events of the feeds.
FixedUpPool ==
    { Fixup(source, e).val :
        source \in {"Dresden", "DresdenWeekly"},
        e \in { u \in DresdenPool : CommonFixup(u) # Panicked } }

\* The events of the corpus import_events is first called with: events of
\* earlier imports, inside the window, cancelled or not, and beyond it, and
\* an event without link beyond the window.
OldPool ==
    { Fixup("Dresden", CanonicalEvent("Tanzfest", <<"https://dresden.example/tanzfest">>,
                                      InWindowDay, Some("5"), c)).val : c \in BOOLEAN }
    \cup
    { Fixup("Dresden", CanonicalEvent("Tanzfest", <<"https://dresden.example/tanzfest">>,
                                      BeyondWindowDay, Some("8"), TRUE)).val,
      CanonicalEvent("Tanz am Dienstag", <<>>, BeyondWindowDay, Missing, FALSE) }

SeqsUpTo(pool, n) == UNION { [1..k -> pool] : k \in 0..n }

\* The keys whose kept event is cancelled.
CancelledKeys(events) ==
    { k \in IdentityKeys(events) : KeyedMapping(events)[k].cancelled }

\* One import_new_events call: the events assembled from the feed, and the
\* outcome of the call.
Fetched(source, upstream, outcome) ==
    [source |-> source, upstream |-> upstream, outcome |-> outcome]

DresdenIdle ==
    /\ dr_pc = "idle"
    /\ dr_old = <<>>
    /\ dr_new = <<>>
    /\ dr_fetched = <<>>
    /\ dr_combined = <<>>
    /\ dr_result = [kind |-> "none"]
    /\ dr_sticky = {}

\* import_events(old_events) is called.
DresdenInit ==
    /\ dr_pc = "dresden"
    /\ dr_old \in SeqsUpTo(OldPool, MaxOld)
    /\ dr_new = <<>>
    /\ dr_fetched = <<>>
    /\ dr_combined = <<>>
    /\ dr_result = [kind |-> "none"]
    /\ dr_sticky = {}

\* Reconciling as soon as the first endpoint is fetched, and again after the
\* second.
FetchDresdenOk_CombinesEarly ==
    /\ dr_pc = "dresden"
    /\ \E upstream \in SeqsUpTo(DresdenPool, MaxBatch) :
        LET imported == ImportNewEvents("Dresden", upstream) IN
        /\ dr_fetched' = Append(dr_fetched, Fetched("Dresden", upstream, imported))
        /\ IF imported = Panicked
           THEN /\ dr_result' = Panicked
                /\ dr_pc' = "done"
                /\ UNCHANGED <<dr_new, dr_combined>>
           ELSE /\ dr_new' = imported.events
                /\ dr_combined' = Append(dr_combined, [old |-> dr_old, new |-> imported.events])
                /\ dr_pc' = "weekly"
                /\ UNCHANGED dr_result
    /\ UNCHANGED <<dr_old, dr_sticky>>
    /\ DresdenFrame

\* let mut new_events = import_new_events::<Dresden>().await?; the feed was
\* fetched and parsed.
FetchDresdenOk ==
    /\ dr_pc = "dresden"
    /\ \E upstream \in SeqsUpTo(DresdenPool, MaxBatch) :
        LET imported == ImportNewEvents("Dresden", upstream) IN
        /\ dr_fetched' = Append(dr_fetched, Fetched("Dresden", upstream, imported))
        /\ IF imported = Panicked
           THEN /\ dr_result' = Panicked
                /\ dr_pc' = "done"
                /\ UNCHANGED dr_new
           ELSE /\ dr_new' = imported.events
                /\ dr_pc' = "weekly"
                /\ UNCHANGED dr_result
    /\ UNCHANGED <<dr_old, dr_combined, dr_sticky>>
    /\ DresdenFrame

\* ... .await?: the fetch failed, import_events returns its error.
FetchDresdenErr ==
    /\ dr_pc = "dresden"
    /\ dr_result' = DresdenErr("Dresden")
    /\ dr_fetched' = Append(dr_fetched, Fetched("Dresden", <<>>, DresdenErr("Dresden")))
    /\ dr_pc' = "done"
    /\ UNCHANGED <<dr_old, dr_new, dr_combined, dr_sticky>>
    /\ DresdenFrame

\* new_events.events.extend(import_new_events::<DresdenWeekly>().await?.events);
\* new_events.sort(); Ok(combine_events(old_events, new_events))
FetchWeeklyOk ==
    /\ dr_pc = "weekly"
    /\ \E upstream \in SeqsUpTo(DresdenPool, MaxBatch) :
        LET imported == ImportNewEvents("DresdenWeekly", upstream) IN
        /\ dr_fetched' = Append(dr_fetched, Fetched("DresdenWeekly", upstream, imported))
        /\ IF imported = Panicked
           THEN /\ dr_result' = Panicked
                /\ UNCHANGED <<dr_new, dr_combined, dr_sticky>>
           ELSE LET new_events == EventsSort(dr_new \o imported.events) IN
                /\ dr_new' = new_events
                /\ dr_combined' = Append(dr_combined, [old |-> dr_old, new |-> new_events])
                /\ dr_result' = DresdenOk(CombineEvents(dr_old, new_events))
                /\ dr_sticky' = { k \in dr_sticky \cup CancelledKeys(dr_old) :
                                      k \in IdentityKeys(new_events) }
    /\ dr_pc' = "done"
    /\ UNCHANGED dr_old
    /\ DresdenFrame

FetchWeeklyErr ==
    /\ dr_pc = "weekly"
    /\ dr_result' = DresdenErr("DresdenWeekly")
    /\ dr_fetched' = Append(dr_fetched, Fetched("DresdenWeekly", <<>>, DresdenErr("DresdenWeekly")))
    /\ dr_pc' = "done"
    /\ UNCHANGED <<dr_old, dr_new, dr_combined, dr_sticky>>
    /\ DresdenFrame

\* The next cycle: the corpus import_events returned is the old corpus of
\* the next call.
NextCycle ==
    /\ dr_pc = "done"
    /\ dr_result.kind = "Ok"
    /\ dr_old' = dr_result.events
    /\ dr_pc' = "dresden"
    /\ dr_new' = <<>>
    /\ dr_fetched' = <<>>
    /\ dr_combined' = <<>>
    /\ dr_result' = [kind |-> "none"]
    /\ UNCHANGED dr_sticky
    /\ DresdenFrame

DresdenNext ==
    \/ FetchDresdenOk
    \/ FetchDresdenErr
    \/ FetchWeeklyOk
    \/ FetchWeeklyErr
    \/ NextCycle

(***************************************************************************)
(* Properties of the reconciliation and of the Dresden import              *)
(***************************************************************************)

\* import_events returned the corpus combine_events made of dr_old and dr_new.
Reconciled == dr_pc = "done" /\ dr_result.kind = "Ok"

\* C13: reconciliation is idempotent in its first argument: reconciling the
\* corpus a cycle returned with the same new batch again gives that corpus.
C13_ReconcileIsIdempotent ==
    Reconciled => CombineEvents(dr_result.events, dr_new) = dr_result.events

\* C13's case: a cycle whose result is neither the old corpus nor the new
\* batch: it merged a cancelled old event with a new one of its key and
\* retained an old event the batch lacks.
C13_Witness ==
    /\ Reconciled
    /\ \E k \in IdentityKeys(dr_old) \cap IdentityKeys(dr_new) :
        /\ KeyedMapping(dr_old)[k].cancelled
        /\ ~ KeyedMapping(dr_new)[k].cancelled
    /\ \E k \in IdentityKeys(dr_old) \ IdentityKeys(dr_new) :
        KeyedMapping(dr_old)[k] \in { dr_result.events[i] : i \in 1..Len(dr_result.events) }
    /\ CombineEvents(dr_result.events, dr_new) = dr_result.events

\* The events of a corpus.
EventsOf(events) == { events[i] : i \in 1..Len(events) }

\* C14, as claimed: whenever old holds a cancelled event and new holds an
\* event of the same key that is not cancelled, the merged corpus holds a
\* cancelled event of that key whose other fields are those of a new event
\* of that key.
C14_AnyCancelledOldEventSticks ==
    Reconciled =>
        \A o \in EventsOf(dr_old), n \in EventsOf(dr_new) :
            (/\ o.cancelled
             /\ ~ n.cancelled
             /\ IdentityKey(o) = IdentityKey(n))
            => \E e \in EventsOf(dr_result.events), n2 \in EventsOf(dr_new) :
                /\ IdentityKey(n2) = IdentityKey(o)
                /\ e = [n2 EXCEPT !.cancelled = TRUE]

\* C14: cancellation is sticky for the event old keeps for a key (the last
\* of that key in old): when it is cancelled and new holds the key, the
\* merged corpus holds, for that key, the event new keeps for it with
\* cancelled = true; and every key that was cancelled in the corpus of an
\* earlier cycle and has been in every batch since is cancelled in the
\* merged corpus.
C14_CancellationIsSticky ==
    Reconciled =>
        /\ \A k \in CancelledKeys(dr_old) \cap IdentityKeys(dr_new) :
            [KeyedMapping(dr_new)[k] EXCEPT !.cancelled = TRUE] \in EventsOf(dr_result.events)
        /\ \A k \in dr_sticky :
            /\ k \in IdentityKeys(dr_result.events)
            /\ KeyedMapping(dr_result.events)[k].cancelled

\* C14's case: in a second cycle. The old corpus, made by the cycle before,
\* holds a cancelled event that no upstream batch holds (a merged one); the
\* batch holds its key uncancelled and on another day, and the merged corpus
\* holds the key cancelled on the day of the batch.
C14_Witness ==
    /\ Reconciled
    /\ \E k \in dr_sticky :
        /\ k \notin CancelledKeys(dr_new)
        /\ \E o \in EventsOf(dr_old) :
            /\ IdentityKey(o) = k
            /\ o.cancelled
            /\ o \notin OldPool \cup FixedUpPool
            /\ o.time # KeyedMapping(dr_new)[k].time
        /\ KeyedMapping(dr_result.events)[k]
            = [KeyedMapping(dr_new)[k] EXCEPT !.cancelled = TRUE]

\* C15, as claimed: an old event whose key new lacks is omitted from the merged
\* corpus when its start date is inside the fetched window, and is in the
\* merged corpus, unchanged, when its start date is outside it.
C15_EveryOldEventDroppedByWindow ==
    Reconciled =>
        \A o \in EventsOf(dr_old) :
            IdentityKey(o) \notin IdentityKeys(dr_new) =>
                /\ InFetchWindow(o) => o \notin EventsOf(dr_result.events)
                /\ ~ InFetchWindow(o) => o \in EventsOf(dr_result.events)

\* C15: of the keys new lacks, the merged corpus drops exactly those whose
\* event in old (the last of the key in old) starts inside the fetched
\* window: such a key is not in the merged corpus, and the event old keeps
\* for any other such key is in it unchanged.
C15_DropsExactlyInWindow ==
    Reconciled =>
        \A k \in IdentityKeys(dr_old) \ IdentityKeys(dr_new) :
            LET o == KeyedMapping(dr_old)[k] IN
            /\ InFetchWindow(o) => k \notin IdentityKeys(dr_result.events)
            /\ ~ InFetchWindow(o) => o \in EventsOf(dr_result.events)

\* C15's case: the batch lacks two keys of old, one of an event inside the
\* window, which the merged corpus lacks, and one of an event beyond it,
\* which the merged corpus holds.
C15_Witness ==
    /\ Reconciled
    /\ \E k1, k2 \in IdentityKeys(dr_old) \ IdentityKeys(dr_new) :
        /\ InFetchWindow(KeyedMapping(dr_old)[k1])
        /\ k1 \notin IdentityKeys(dr_result.events)
        /\ ~ InFetchWindow(KeyedMapping(dr_old)[k2])
        /\ KeyedMapping(dr_old)[k2] \in EventsOf(dr_result.events)

\* How often an event occurs in a sequence of events.
Occurrences(events, e) == Cardinality({ i \in 1..Len(events) : events[i] = e })

\* sorted is batch in ascending order of start date.
IsSortedBatch(sorted, batch) ==
    /\ Len(sorted) = Len(batch)
    /\ \A e \in EventsOf(batch) \cup EventsOf(sorted) :
        Occurrences(sorted, e) = Occurrences(batch, e)
    /\ \A i \in 1..(Len(sorted) - 1) : DateLeq(StartDate(sorted[i]), StartDate(sorted[i + 1]))

\* C16: combine_events is called only after both endpoints are fetched: not
\* before import_events returns; exactly once when both fetches succeeded,
\* Dresden first, on the old corpus and the sorted concatenation of the two
\* batches, and what it returns is what import_events returns; never when a
\* fetch failed, and then import_events returns the error and the second
\* endpoint is not fetched after the first failed.
C16_CombinesOnceAfterBothFetches ==
    /\ dr_pc \in {"dresden", "weekly"} => dr_combined = <<>>
    /\ (dr_pc = "done" /\ dr_result.kind = "Ok") =>
        /\ Len(dr_fetched) = 2
        /\ dr_fetched[1].source = "Dresden"
        /\ dr_fetched[2].source = "DresdenWeekly"
        /\ dr_fetched[1].outcome.kind = "Ok"
        /\ dr_fetched[2].outcome.kind = "Ok"
        /\ Len(dr_combined) = 1
        /\ dr_combined[1].old = dr_old
        /\ IsSortedBatch(dr_combined[1].new,
                         dr_fetched[1].outcome.events \o dr_fetched[2].outcome.events)
        /\ dr_result.events = CombineEvents(dr_combined[1].old, dr_combined[1].new)
    /\ (dr_pc = "done" /\ dr_result.kind = "Err") =>
        /\ dr_combined = <<>>
        /\ dr_fetched # <<>>
        /\ dr_fetched[Len(dr_fetched)].outcome = dr_result
        /\ \A i \in 1..(Len(dr_fetched) - 1) : dr_fetched[i].outcome.kind = "Ok"

\* C16's case: both fetches succeeded with a batch each, the weekly event
\* starting before the Dresden one, and combine_events was called once.
C16_Witness ==
    /\ dr_pc = "done"
    /\ dr_result.kind = "Ok"
    /\ Len(dr_combined) = 1
    /\ Len(dr_fetched) = 2
    /\ dr_fetched[1].outcome.events # <<>>
    /\ dr_fetched[2].outcome.events # <<>>
    /\ dr_combined[1].new # dr_fetched[1].outcome.events \o dr_fetched[2].outcome.events

\* The URLs of the events of a feed differ pairwise.
UrlsDiffer(upstream) ==
    \A k, l \in 1..Len(upstream) : k # l => upstream[k].links[1] # upstream[l].links[1]

\* C21: two distinct upstream events of a Dresden source keep distinct
\* identity keys after fixup. For every import of a source that returned a
\* batch: fixup vetoed no event, every event of the batch has the links of
\* its upstream event, in order, after the inserted series link, two events
\* whose upstream URLs differ have different identity keys, and when all
\* URLs of the feed differ the identity-keyed mapping of the batch holds
\* every event of it.
C21_DistinctUrlsKeepDistinctKeys ==
    \A i \in 1..Len(dr_fetched) :
        LET upstream == dr_fetched[i].upstream
            outcome == dr_fetched[i].outcome
        IN
        outcome.kind = "Ok" =>
            /\ Len(outcome.events) = Len(upstream)
            /\ \A k \in 1..Len(upstream) :
                Tail(outcome.events[k].links) = upstream[k].links
            /\ \A k, l \in 1..Len(upstream) :
                upstream[k].links[1] # upstream[l].links[1] =>
                    IdentityKey(outcome.events[k]) # IdentityKey(outcome.events[l])
            /\ UrlsDiffer(upstream) =>
                \A k \in 1..Len(upstream) :
                    \E key \in IdentityKeys(outcome.events) :
                        KeyedMapping(outcome.events)[key] = outcome.events[k]

(***************************************************************************)
(* github.rs: to_safe_filename                                             *)
(***************************************************************************)

\* A string is the sequence of its characters. The characters of the model:
\* ASCII letters of both cases, a digit, the space, hyphen and underscore,
\* an apostrophe, a tab, and characters outside ASCII, named: a lower
\* and an upper case e with acute accent, the Kelvin sign (U+212A, whose
\* lower case is the ASCII k) and the capital I with dot above (U+0130,
\* whose lower case is i followed by the combining dot above, U+0307).
AsciiLowercase == {"a", "i", "k", "z"}

AsciiUppercase == {"Z"}

AsciiDigits == {"5"}

Chars ==
    AsciiLowercase \cup AsciiUppercase \cup AsciiDigits
    \cup {" ", "-", "_", "'", "TAB", "e_acute", "E_ACUTE", "KELVIN", "I_DOT"}

\* char::to_lowercase: the characters a character becomes.
CharToLowercase(c) ==
    CASE c = "Z" -> <<"z">>
      [] c = "E_ACUTE" -> <<"e_acute">>
      [] c = "KELVIN" -> <<"k">>
      [] c = "I_DOT" -> <<"i", "COMBINING_DOT">>
      [] OTHER -> <<c>>

\* s.to_lowercase()
RECURSIVE StrToLowercase(_)
StrToLowercase(s) ==
    IF s = <<>> THEN <<>> ELSE CharToLowercase(Head(s)) \o StrToLowercase(Tail(s))

\* .replace(' ', "_")
ReplaceSpaces(s) == [i \in 1..Len(s) |-> IF s[i] = " " THEN "_" ELSE s[i]]

\* c.is_ascii_alphanumeric()
IsAsciiAlphanumeric(c) == c \in AsciiLowercase \cup AsciiUppercase \cup AsciiDigits

\* filename.retain(|c| c.is_ascii_alphanumeric() || c == '_' || c == '-')
Retain(s) == SelectSeq(s, LAMBDA c : IsAsciiAlphanumeric(c) \/ c = "_" \/ c = "-")

\* The length filename.truncate(30) cuts to.
TruncateLen == 30

\* filename.truncate(new_len): new_len counts bytes; every character retain
\* has left is one byte long.
Truncate(s, new_len) == IF new_len < Len(s) THEN SubSeq(s, 1, new_len) ELSE s

\* to_safe_filename cutting the string before it removes characters.
ToSafeFilename_TruncatesFirst(s) ==
    Retain(Truncate(ReplaceSpaces(StrToLowercase(s)), TruncateLen))

\* pub fn to_safe_filename(s: &str) -> String
ToSafeFilename(s) ==
    Truncate(Retain(ReplaceSpaces(StrToLowercase(s))), TruncateLen)

\* The longest string of arbitrary characters a model input starts with.
MaxPrefix == 2

\* n times the character c.
Repeat(c, n) == [i \in 1..n |-> c]

\* The inputs: every string of up to MaxPrefix characters, alone or followed
\* by 29 to 31 times one character: one that is kept, one that is removed,
\* and one that becomes two characters in lower case.
FilenameInputs ==
    { prefix \o Repeat(c, n) :
        prefix \in UNION { [1..k -> Chars] : k \in 0..MaxPrefix },
        c \in {"a", "'", "I_DOT"},
        n \in {0, 29, 30, 31} }

FilenameIdle ==
    /\ fn_pc = "idle"
    /\ fn_input = <<>>
    /\ fn_result = <<>>

FilenameInit ==
    /\ fn_pc = "call"
    /\ fn_input \in FilenameInputs
    /\ fn_result = <<>>

ToSafeFilenameCall ==
    /\ fn_pc = "call"
    /\ fn_result' = ToSafeFilename(fn_input)
    /\ fn_pc' = "done"
    /\ UNCHANGED fn_input
    /\ FilenameFrame

FilenameNext == ToSafeFilenameCall

\* What one character of the input contributes to the filename: its lower
\* case with a space made an underscore and every character dropped that is
\* no ASCII lower case letter, ASCII digit, underscore or hyphen.
SafeCharsOf(c) ==
    SelectSeq([i \in 1..Len(CharToLowercase(c)) |->
                  IF CharToLowercase(c)[i] = " " THEN "_" ELSE CharToLowercase(c)[i]],
              LAMBDA x : x \in AsciiLowercase \cup AsciiDigits \cup {"_", "-"})

RECURSIVE SafeChars(_)
SafeChars(s) == IF s = <<>> THEN <<>> ELSE SafeCharsOf(Head(s)) \o SafeChars(Tail(s))

\* C17: to_safe_filename returns at most 30 characters, each an ASCII lower
\* case letter, an ASCII digit, an underscore or a hyphen: the first 30 of
\* the input's characters lower-cased, spaces made underscores, and all other
\* disallowed characters removed.
C17_SafeFilename ==
    fn_pc = "done" =>
        /\ Len(fn_result) <= 30
        /\ \A i \in 1..Len(fn_result) :
            fn_result[i] \in AsciiLowercase \cup AsciiDigits \cup {"_", "-"}
        /\ \A i \in 1..Len(fn_result) : fn_result[i] = SafeChars(fn_input)[i]
        /\ Len(fn_result) = IF Len(SafeChars(fn_input)) < 30 THEN Len(SafeChars(fn_input)) ELSE 30

\* C17's case: an input of more than 30 characters that starts with an
\* upper case letter and a character that is removed, and whose safe
\* characters number more than 30: the result has 30.
C17_Witness ==
    /\ fn_pc = "done"
    /\ Len(fn_input) > 30
    /\ fn_input[1] \in AsciiUppercase
    /\ fn_input[2] = "'"
    /\ Len(SafeChars(fn_input)) > 30
    /\ Len(fn_result) = 30

(***************************************************************************)
(* Specifications: one per component, the other components idle.           *)
(***************************************************************************)

InitBranch ==
    /\ BranchInit
    /\ MonthIdle
    /\ CorpusIdle
    /\ TimeIdle
    /\ ImportIdle
    /\ CdssIdle
    /\ DresdenIdle
    /\ FilenameIdle

SpecBranch == InitBranch /\ [][BranchNext]_vars

InitMonth ==
    /\ MonthInit
    /\ BranchIdle
    /\ CorpusIdle
    /\ TimeIdle
    /\ ImportIdle
    /\ CdssIdle
    /\ DresdenIdle
    /\ FilenameIdle

SpecMonth == InitMonth /\ [][MonthNext]_vars

InitCorpus ==
    /\ CorpusInit
    /\ BranchIdle
    /\ MonthIdle
    /\ TimeIdle
    /\ ImportIdle
    /\ CdssIdle
    /\ DresdenIdle
    /\ FilenameIdle

SpecCorpus == InitCorpus /\ [][CorpusNext]_vars

InitTime ==
    /\ TimeInit
    /\ BranchIdle
    /\ MonthIdle
    /\ CorpusIdle
    /\ ImportIdle
    /\ CdssIdle
    /\ DresdenIdle
    /\ FilenameIdle

SpecTime == InitTime /\ [][TimeNext]_vars

\* One importer runs: balfolk.nl or plug.events on a feed, or the CDSS
\* conversion of one event.
InitImport ==
    /\ \/ BalfolknlInit /\ CdssIdle
       \/ PlugeventsInit /\ CdssIdle
       \/ ImportIdle /\ CdssInit
    /\ BranchIdle
    /\ MonthIdle
    /\ CorpusIdle
    /\ TimeIdle
    /\ DresdenIdle
    /\ FilenameIdle

SpecImport == InitImport /\ [][ImportNext]_vars

InitDresden ==
    /\ DresdenInit
    /\ BranchIdle
    /\ MonthIdle
    /\ CorpusIdle
    /\ TimeIdle
    /\ ImportIdle
    /\ CdssIdle
    /\ FilenameIdle

SpecDresden == InitDresden /\ [][DresdenNext]_vars

InitFilename ==
    /\ FilenameInit
    /\ BranchIdle
    /\ MonthIdle
    /\ CorpusIdle
    /\ TimeIdle
    /\ ImportIdle
    /\ CdssIdle
    /\ DresdenIdle

SpecFilename == InitFilename /\ [][FilenameNext]_vars

====
